---- MODULE Spec2Model ----
(***************************************************************************)
(* Answer evaluation and mastery tracking of the learning-games renderer.  *)
(*                                                                         *)
(*  - the store (lib/store.ts): omiProgress and recordOMIEvidence,         *)
(*    calculateMasteryLevel, the per-game timers, answers, evaluations;    *)
(*  - the scoring module (domain/scoring.ts): scoreGame and its per-type   *)
(*    scorers with their OMI evidence aggregation;                         *)
(*  - the GameRenderer component: timer effect, interval callback,         *)
(*    handleSubmit, handleReset, handleAnswerChange.                       *)
(*                                                                         *)
(* JavaScript numbers that hold fractions (accuracy, averageAccuracy,      *)
(* score, successRate) are modelled as exact rationals <<n, d>> in lowest  *)
(* terms with d > 0.                                                       *)
(***************************************************************************)
EXTENDS Integers, Sequences, FiniteSets, TLC

VARIABLES
    omiProgress,    \* store.omiProgress: omiId -> OMIProgress (partial map)
    evidenceLog,    \* observer: every evidence recorded since the store was last emptied,
                    \* per omiId, in arrival order
    now,            \* logical clock behind new Date().toISOString()
    lastOp,         \* observer: the operation performed by the last step and its arguments
    validatedSpec,  \* the validated GameSpec handed to scoreGame (Null: none)
    envelope,       \* the AnswerPayload envelope handed to scoreGame (Null: none)
    evaluation,     \* the EvaluationResult scoreGame returned (Null: none)
    answers,        \* store.answers: gameId -> AnswerPayload (partial map)
    evaluations,    \* store.evaluations: gameId -> EvaluationResult (partial map)
    timers,         \* store.timers: gameId -> TimerState (partial map)
    mounted,        \* a GameRenderer instance for validatedSpec is mounted
    intervalRef,    \* intervalRef.current: an interval id, or 0 for null
    intervals,      \* the window's live intervals set by the timer effect
    effectRuns,     \* number of runs of the timer effect so far (source of interval ids)
    hasSubmitted,   \* observer: a submission of the mounted instance produced an evaluation
    draftAnswers,   \* ShowdownSet's draftAnswers state: showdownId -> ShowdownState
    submittedQuestions, \* store.submittedQuestions: list of {gameId, questionId, correct, timestamp}
    askedQuestions  \* store.askedQuestions: list of {specPath, questionId, timestamp}

vars == <<omiProgress, evidenceLog, now, lastOp, validatedSpec, envelope, evaluation,
          answers, evaluations, timers, mounted, intervalRef, intervals, effectRuns,
          hasSubmitted, draftAnswers, submittedQuestions, askedQuestions>>
scoreVars == <<validatedSpec, envelope, evaluation>>
storeVars == <<omiProgress, evidenceLog>>
sessionVars == <<answers, evaluations, timers>>
rendererVars == <<mounted, intervalRef, intervals, effectRuns, hasSubmitted>>
showdownVars == <<draftAnswers, submittedQuestions, askedQuestions>>

----------------------------------------------------------------------------
(* Bounds of the model *)

\* number of evidence entries recorded in a run of Spec
MaxRecorded == 3
\* longest evidence list passed to one recordOMIEvidence call in Spec
MaxList == 2
\* number of single-entry calls in a run of SpecHist (exceeds the history capacity)
MaxHistAttempts == 11
\* largest number of sub-units (questions, activities) of a set spec in SpecScore
MaxUnits == 2
\* largest timeLimitSec of a game in SpecRenderer
MaxTimeLimit == 2
\* number of runs of the timer effect (mounts and re-runs) in a run of SpecRenderer
MaxEffectRuns == 3
\* number of calls of scoreGame (submissions included) in a run
MaxSubmissions == 2
\* number of timestamps taken (marks and submissions) in a run of SpecShowdown
MaxMarks == 2
\* number of timestamps taken (evidence lists and marks) in a run of SpecStore
MaxStoreStamps == 2
\* number of markQuestionSubmitted calls in a run of SpecMarks
MaxSubmittedMarks == 3

----------------------------------------------------------------------------
(* Exact rational arithmetic standing for JavaScript number arithmetic *)

RECURSIVE GCD(_, _)
GCD(a, b) == IF b = 0 THEN a ELSE GCD(b, a % b)

Abs(x) == IF x < 0 THEN -x ELSE x

\* the number n/d (d # 0) in lowest terms
Rat(n, d) ==
    LET g == GCD(Abs(n), Abs(d))
        s == IF d < 0 THEN -1 ELSE 1
    IN  <<(s * n) \div g, (s * d) \div g>>

RatInt(n) == <<n, 1>>
RatAdd(x, y) == Rat(x[1] * y[2] + y[1] * x[2], x[2] * y[2])
RatMul(x, y) == Rat(x[1] * y[1], x[2] * y[2])
RatDiv(x, y) == Rat(x[1] * y[2], x[2] * y[1])
RatGeq(x, y) == x[1] * y[2] >= y[1] * x[2]
RatLeq(x, y) == RatGeq(y, x)

----------------------------------------------------------------------------
(* The store: OMI progress (lib/store.ts) *)

OmiIds == {"a", "b"}
MasteryLevels == {"not-yet", "emerging", "proficient", "mastered"}

\* evidenceHistory keeps slice(-9) of the old history plus the new entry
HistorySlice == 9

\* Array.prototype.slice(-k)
SliceLast(s, k) == IF Len(s) <= k THEN s ELSE SubSeq(s, Len(s) - k + 1, Len(s))

\* calculateMasteryLevel with the tier order changed (lowest tier first)
calculateMasteryLevel_lowestFirst(progress) ==
    IF progress.totalAttempts = 0 THEN "not-yet"
    ELSE LET successRate == Rat(progress.successfulAttempts, progress.totalAttempts)
             avgAccuracy == progress.averageAccuracy
         IN  IF RatGeq(successRate, Rat(4, 10)) \/ progress.totalAttempts >= 1
                 THEN "emerging"
             ELSE IF RatGeq(successRate, Rat(7, 10)) /\ RatGeq(avgAccuracy, Rat(7, 10))
                     /\ progress.totalAttempts >= 2
                 THEN "proficient"
             ELSE IF RatGeq(successRate, Rat(9, 10)) /\ RatGeq(avgAccuracy, Rat(9, 10))
                     /\ progress.totalAttempts >= 3
                 THEN "mastered"
             ELSE "not-yet"

\* calculateMasteryLevel that never lets the "mastered" tier go
calculateMasteryLevel_sticky(progress) ==
    IF progress.totalAttempts = 0 THEN "not-yet"
    ELSE LET successRate == Rat(progress.successfulAttempts, progress.totalAttempts)
             avgAccuracy == progress.averageAccuracy
         IN  IF progress.masteryLevel = "mastered"
                 \/ (RatGeq(successRate, Rat(9, 10)) /\ RatGeq(avgAccuracy, Rat(9, 10))
                     /\ progress.totalAttempts >= 3)
                 THEN "mastered"
             ELSE IF RatGeq(successRate, Rat(7, 10)) /\ RatGeq(avgAccuracy, Rat(7, 10))
                     /\ progress.totalAttempts >= 2
                 THEN "proficient"
             ELSE IF RatGeq(successRate, Rat(4, 10)) \/ progress.totalAttempts >= 1
                 THEN "emerging"
             ELSE "not-yet"

\* calculateMasteryLevel whose lowest tier asks for the success rate alone
calculateMasteryLevel_rateOnly(progress) ==
    IF progress.totalAttempts = 0 THEN "not-yet"
    ELSE LET successRate == Rat(progress.successfulAttempts, progress.totalAttempts)
             avgAccuracy == progress.averageAccuracy
         IN  IF RatGeq(successRate, Rat(9, 10)) /\ RatGeq(avgAccuracy, Rat(9, 10))
                     /\ progress.totalAttempts >= 3
                 THEN "mastered"
             ELSE IF RatGeq(successRate, Rat(7, 10)) /\ RatGeq(avgAccuracy, Rat(7, 10))
                     /\ progress.totalAttempts >= 2
                 THEN "proficient"
             ELSE IF RatGeq(successRate, Rat(4, 10))
                 THEN "emerging"
             ELSE "not-yet"

calculateMasteryLevel(progress) ==
    IF progress.totalAttempts = 0 THEN "not-yet"
    ELSE LET successRate == Rat(progress.successfulAttempts, progress.totalAttempts)
             avgAccuracy == progress.averageAccuracy
         IN  IF RatGeq(successRate, Rat(9, 10)) /\ RatGeq(avgAccuracy, Rat(9, 10))
                     /\ progress.totalAttempts >= 3
                 THEN "mastered"
             ELSE IF RatGeq(successRate, Rat(7, 10)) /\ RatGeq(avgAccuracy, Rat(7, 10))
                     /\ progress.totalAttempts >= 2
                 THEN "proficient"
             ELSE IF RatGeq(successRate, Rat(4, 10)) \/ progress.totalAttempts >= 1
                 THEN "emerging"
             ELSE "not-yet"

\* the record used when newProgress has no entry for the evidence's omiId
freshProgress(evidence) ==
    [omiId |-> evidence.omiId,
     masteryLevel |-> "not-yet",
     totalAttempts |-> 0,
     successfulAttempts |-> 0,
     averageAccuracy |-> RatInt(0),
     lastAttempt |-> evidence.timestamp,
     evidenceHistory |-> <<>>]

\* existing read from the state the call started with instead of newProgress
existingProgress_stale(state, newProgress, evidence) ==
    IF evidence.omiId \in DOMAIN state
        THEN state[evidence.omiId]
        ELSE freshProgress(evidence)

\* const existing = newProgress[evidence.omiId] || { ...fresh }
existingProgress(state, newProgress, evidence) ==
    IF evidence.omiId \in DOMAIN newProgress
        THEN newProgress[evidence.omiId]
        ELSE freshProgress(evidence)

RECURSIVE AccuracySum(_)
\* the sum of the accuracies of a list of evidence entries
AccuracySum(history) ==
    IF history = <<>> THEN RatInt(0)
    ELSE RatAdd(history[1].accuracy, AccuracySum(Tail(history)))

\* the mean taken over the retained history instead of over every attempt
newAverageAccuracy_overHistory(existing, evidence) ==
    LET kept == Append(SliceLast(existing.evidenceHistory, HistorySlice), evidence)
    IN  RatDiv(AccuracySum(kept), RatInt(Len(kept)))

\* the running mean that forgets the weight of the earlier attempts
newAverageAccuracy_unweighted(existing, evidence) ==
    RatDiv(RatAdd(existing.averageAccuracy, evidence.accuracy), RatInt(2))

\* (existing.averageAccuracy * existing.totalAttempts + evidence.accuracy) / newTotalAttempts
newAverageAccuracy(existing, evidence) ==
    RatDiv(RatAdd(RatMul(existing.averageAccuracy, RatInt(existing.totalAttempts)),
                  evidence.accuracy),
           RatInt(existing.totalAttempts + 1))

\* the history kept with slice(-10): one entry too many
newEvidenceHistory_keepEleven(existing, evidence) ==
    Append(SliceLast(existing.evidenceHistory, HistorySlice + 1), evidence)

\* [...existing.evidenceHistory.slice(-9), evidence]
newEvidenceHistory(existing, evidence) ==
    Append(SliceLast(existing.evidenceHistory, HistorySlice), evidence)

\* the body of the forEach callback: the updated record for one evidence entry
updatedProgress(existing, evidence) ==
    LET updated == [existing EXCEPT
            !.totalAttempts = existing.totalAttempts + 1,
            !.successfulAttempts =
                existing.successfulAttempts + (IF evidence.demonstrated THEN 1 ELSE 0),
            !.averageAccuracy = newAverageAccuracy(existing, evidence),
            !.lastAttempt = evidence.timestamp,
            !.evidenceHistory = newEvidenceHistory(existing, evidence)]
    IN  [updated EXCEPT !.masteryLevel = calculateMasteryLevel(updated)]

\* newProgress[key] = value on a partial map
MapSet(m, key, value) ==
    [k \in DOMAIN m \cup {key} |-> IF k = key THEN value ELSE m[k]]

\* evidenceList.forEach(...) over the shared newProgress
RECURSIVE forEachEvidence(_, _, _)
forEachEvidence(state, newProgress, evidenceList) ==
    IF evidenceList = <<>> THEN newProgress
    ELSE LET evidence == Head(evidenceList)
             existing == existingProgress(state, newProgress, evidence)
         IN  forEachEvidence(state,
                             MapSet(newProgress, evidence.omiId,
                                    updatedProgress(existing, evidence)),
                             Tail(evidenceList))

\* recordOMIEvidence: the new omiProgress
\* recordOMIEvidence building the new map from nothing instead of from a copy
recordOMIEvidence_fromEmpty(state, evidenceList) ==
    forEachEvidence(state, <<>>, evidenceList)

recordOMIEvidence(state, evidenceList) == forEachEvidence(state, state, evidenceList)

\* getOMIMastery
getOMIMastery(state, omiId) ==
    IF omiId \in DOMAIN state THEN state[omiId].masteryLevel ELSE "not-yet"

----------------------------------------------------------------------------
(* The scoring module (domain/scoring.ts) *)

\* JavaScript NaN (0 / 0) and Infinity (n / 0)
NaN == <<0, 0>>
Infinity == <<1, 0>>

\* n / d on JavaScript numbers holding integers
NumDiv(n, d) ==
    IF d = 0 THEN (IF n = 0 THEN NaN ELSE Infinity) ELSE Rat(n, d)

\* scoreGame returning null
Null == [null |-> TRUE]

\* record[key] is not undefined
Has(record, key) == key \in DOMAIN record

\* question.omiMapping || []
omiMappingOrEmpty(unit) ==
    IF Has(unit, "omiMapping") THEN unit.omiMapping ELSE <<>>

\* question.metadata?.omis ?? []
metadataOmisOrEmpty(unit) ==
    IF Has(unit, "metadata") /\ Has(unit.metadata, "omis")
        THEN unit.metadata.omis ELSE <<>>

\* totalCorrect incremented for every unit result, correct or not
CountCorrect_everyResult(results) == Len(results)

\* number of true flags in a sequence of unit results
CountCorrect(results) == Cardinality({i \in 1..Len(results) : results[i].correct})

\* arraysMatch(a, b)
\* arraysMatch without the length check: every item of a found at its index in b
arraysMatch_prefix(a, b) ==
    \A index \in 1..Len(a) : index <= Len(b) /\ a[index] = b[index]

arraysMatch(a, b) ==
    IF Len(a) # Len(b) THEN FALSE
    ELSE \A index \in 1..Len(a) : a[index] = b[index]

\* the loop counting indices i < expected.length with expected[i] === submitted[i]
correctPositions(expected, submitted) ==
    Cardinality({i \in 1..Len(expected) : i <= Len(submitted) /\ expected[i] = submitted[i]})

\* new Map(pairs.map((pair) => [pair.left, pair.right])): the last pair of a left key wins
PairMap(pairs) ==
    [left \in {pairs[i].left : i \in 1..Len(pairs)} |->
        LET last == CHOOSE i \in 1..Len(pairs) :
                        /\ pairs[i].left = left
                        /\ \A j \in 1..Len(pairs) : pairs[j].left = left => j <= i
        IN  pairs[last].right]

MapSize(map) == Cardinality(DOMAIN map)

\* the expectedMap.forEach loop counting the keys with submittedMap.get(left) === right
correctMatches(expectedMap, submittedMap) ==
    Cardinality({left \in DOMAIN expectedMap :
                    Has(submittedMap, left) /\ submittedMap[left] = expectedMap[left]})

\* the loop counting the sentences with answers[sentence.id] === sentence.blank_answer
correctBlanks(sentences, blankAnswers) ==
    Cardinality({i \in 1..Len(sentences) :
                    /\ Has(blankAnswers, sentences[i].id)
                    /\ blankAnswers[sentences[i].id] = sentences[i].blank_answer})

\* the loop counting the items with questionAnswers[item.id] === item.correctCategoryId
correctClassifications(items, questionAnswers) ==
    Cardinality({i \in 1..Len(items) :
                    /\ Has(questionAnswers, items[i].id)
                    /\ questionAnswers[items[i].id] = items[i].correctCategoryId})

\* generateOMIEvidence: one record per entry of spec.metadata.omis
generateOMIEvidence(spec, correct, accuracy, t) ==
    IF ~(Has(spec, "metadata") /\ Has(spec.metadata, "omis")) \/ Len(spec.metadata.omis) = 0
        THEN <<>>
        ELSE [i \in 1..Len(spec.metadata.omis) |->
                [omiId |-> spec.metadata.omis[i],
                 demonstrated |-> correct,
                 accuracy |-> accuracy,
                 timestamp |-> t]]

\* omiEvidenceMap: a Map in insertion order, as a sequence of entries
MapHasOmi(map, omiId) == \E i \in 1..Len(map) : map[i].omiId = omiId
MapIndexOf(map, omiId) == CHOOSE i \in 1..Len(map) : map[i].omiId = omiId

\* the inner loop body: omiEvidenceMap.get(omiId) || {0, 0, 0}; total++; ...; set
accumulateOmi(map, omiId, result) ==
    LET existing == IF MapHasOmi(map, omiId)
                        THEN map[MapIndexOf(map, omiId)]
                        ELSE [omiId |-> omiId, correct |-> 0, total |-> 0,
                              totalAccuracy |-> RatInt(0)]
        updated == [existing EXCEPT
                        !.total = @ + 1,
                        !.totalAccuracy = RatAdd(@, result.accuracy),
                        !.correct = @ + (IF result.correct THEN 1 ELSE 0)]
    IN  IF MapHasOmi(map, omiId)
            THEN [map EXCEPT ![MapIndexOf(map, omiId)] = updated]
            ELSE Append(map, updated)

\* for (const omiId of result.omiIds) ...
RECURSIVE accumulateOmiIds(_, _, _)
accumulateOmiIds(map, omiIds, result) ==
    IF omiIds = <<>> THEN map
    ELSE accumulateOmiIds(accumulateOmi(map, Head(omiIds), result), Tail(omiIds), result)

\* for (const result of questionResults) ...
RECURSIVE accumulateResults(_, _)
accumulateResults(map, results) ==
    IF results = <<>> THEN map
    ELSE accumulateResults(accumulateOmiIds(map, Head(results).omiIds, Head(results)),
                           Tail(results))

\* accuracy of an aggregated entry taken from the correct count (all-or-nothing per unit)
entryAccuracy_binary(stats) == NumDiv(stats.correct, stats.total)

\* stats.totalAccuracy / stats.total
entryAccuracy(stats) == RatDiv(stats.totalAccuracy, RatInt(stats.total))

\* Array.from(omiEvidenceMap.entries()).map(...) with the accumulated accuracy
evidenceFromMap(map, t) ==
    [i \in 1..Len(map) |->
        [omiId |-> map[i].omiId,
         demonstrated |-> map[i].correct = map[i].total,
         accuracy |-> entryAccuracy(map[i]),
         timestamp |-> t]]

\* the same for scoreMcqSet, whose entries hold counts only
evidenceFromCounts(map, t) ==
    [i \in 1..Len(map) |->
        [omiId |-> map[i].omiId,
         demonstrated |-> map[i].correct = map[i].total,
         accuracy |-> NumDiv(map[i].correct, map[i].total),
         timestamp |-> t]]

\* one unit's entry of questionResults / activityResults
UnitResult(correct, accuracy, omiIds) ==
    [correct |-> correct, accuracy |-> accuracy, omiIds |-> omiIds]

Bit(b) == IF b THEN RatInt(1) ELSE RatInt(0)

\* scoreMcq with the time of the evaluation written into the feedback
scoreMcq_datedFeedback(spec, answer, t) ==
    LET correct == answer.optionId = spec.correctOptionId
    IN  [gameId |-> spec.id,
         correct |-> correct,
         score |-> Bit(correct),
         feedback |-> "Evaluated at " \o ToString(t),
         omiEvidence |-> generateOMIEvidence(spec, correct, Bit(correct), t)]

scoreMcq(spec, answer, t) ==
    LET correct == answer.optionId = spec.correctOptionId
        accuracy == Bit(correct)
    IN  [gameId |-> spec.id,
         correct |-> correct,
         score |-> Bit(correct),
         feedback |-> IF correct THEN "Correct!"
                      ELSE IF Has(spec, "explanation") THEN spec.explanation
                      ELSE "Not quite. Review the concept and try again.",
         omiEvidence |-> generateOMIEvidence(spec, correct, accuracy, t)]

setFeedback(allCorrect, totalCorrect, n, perfect, unit) ==
    IF allCorrect
        THEN "Perfect! You " \o perfect \o " all " \o ToString(n) \o " " \o unit \o "!"
        ELSE "You got " \o ToString(totalCorrect) \o " out of " \o ToString(n)
                 \o " questions correct."

scoreMcqSet(spec, answer, t) ==
    LET questionResults ==
            [i \in 1..Len(spec.questions) |->
                LET question == spec.questions[i]
                    correct == /\ Has(answer.answers, question.id)
                               /\ answer.answers[question.id] = question.correctOptionId
                IN  UnitResult(correct, Bit(correct), omiMappingOrEmpty(question))]
        totalCorrect == CountCorrect(questionResults)
        omiEvidenceMap == accumulateResults(<<>>, questionResults)
        allCorrect == totalCorrect = Len(spec.questions)
    IN  [gameId |-> spec.id,
         correct |-> allCorrect,
         score |-> NumDiv(totalCorrect, Len(spec.questions)),
         feedback |-> setFeedback(allCorrect, totalCorrect, Len(spec.questions),
                                  "got", "questions correct"),
         omiEvidence |-> evidenceFromCounts(omiEvidenceMap, t)]

\* scoreOrdering with the evidence accuracy taken from the binary score
scoreOrdering_binaryAccuracy(spec, answer, t) ==
    LET correct == arraysMatch(spec.items, answer.order)
    IN  [gameId |-> spec.id,
         correct |-> correct,
         score |-> Bit(correct),
         feedback |-> "",
         omiEvidence |-> generateOMIEvidence(spec, correct, Bit(correct), t)]

scoreOrdering(spec, answer, t) ==
    LET expected == spec.items
        submitted == answer.order
        correct == arraysMatch(expected, submitted)
        accuracy == NumDiv(correctPositions(expected, submitted), Len(expected))
    IN  [gameId |-> spec.id,
         correct |-> correct,
         score |-> Bit(correct),
         feedback |-> IF correct THEN "Perfect order!"
                      ELSE "That order is off. Adjust and retry.",
         omiEvidence |-> generateOMIEvidence(spec, correct, accuracy, t)]

scoreOrderingSet(spec, answer, t) ==
    LET questionResults ==
            [i \in 1..Len(spec.questions) |->
                LET question == spec.questions[i]
                    submittedOrder == IF Has(answer.answers, question.id)
                                          THEN answer.answers[question.id] ELSE <<>>
                    expected == question.items
                    correct == arraysMatch(expected, submittedOrder)
                    accuracy == IF Len(expected) > 0
                                    THEN NumDiv(correctPositions(expected, submittedOrder),
                                                Len(expected))
                                    ELSE RatInt(0)
                IN  UnitResult(correct, accuracy, omiMappingOrEmpty(question))]
        totalCorrect == CountCorrect(questionResults)
        omiEvidenceMap == accumulateResults(<<>>, questionResults)
        allCorrect == totalCorrect = Len(spec.questions)
    IN  [gameId |-> spec.id,
         correct |-> allCorrect,
         score |-> NumDiv(totalCorrect, Len(spec.questions)),
         feedback |-> setFeedback(allCorrect, totalCorrect, Len(spec.questions),
                                  "got", "ordering questions correct"),
         omiEvidence |-> evidenceFromMap(omiEvidenceMap, t)]

\* scorePairMatch without the early return on a size mismatch
scorePairMatch_noSizeCheck(spec, answer, t) ==
    LET expectedMap == PairMap(spec.pairs)
        submittedMap == PairMap(answer.matches)
        matched == correctMatches(expectedMap, submittedMap)
        correct == matched = MapSize(expectedMap)
    IN  [gameId |-> spec.id,
         correct |-> correct,
         score |-> Bit(correct),
         feedback |-> "",
         omiEvidence |-> generateOMIEvidence(spec, correct,
                             NumDiv(matched, MapSize(expectedMap)), t)]

scorePairMatch(spec, answer, t) ==
    LET expectedMap == PairMap(spec.pairs)
        submittedMap == PairMap(answer.matches)
        matched == correctMatches(expectedMap, submittedMap)
        accuracy == NumDiv(matched, MapSize(expectedMap))
        correct == matched = MapSize(expectedMap)
    IN  IF MapSize(expectedMap) # MapSize(submittedMap)
            THEN [gameId |-> spec.id,
                  correct |-> FALSE,
                  score |-> RatInt(0),
                  feedback |-> "Keep practicing those matches!",
                  omiEvidence |-> generateOMIEvidence(spec, FALSE, RatInt(0), t)]
            ELSE [gameId |-> spec.id,
                  correct |-> correct,
                  score |-> Bit(correct),
                  feedback |-> IF correct THEN "Great job matching the pairs!"
                               ELSE "Some matches are incorrect. Try again.",
                  omiEvidence |-> generateOMIEvidence(spec, correct, accuracy, t)]

\* correct and accuracy of one pair-match unit as the set scorers compute them
pairMatchUnit(pairs, submittedMatches) ==
    LET expectedMap == PairMap(pairs)
        submittedMap == PairMap(submittedMatches)
        matched == correctMatches(expectedMap, submittedMap)
    IN  [accuracy |-> IF MapSize(expectedMap) > 0
                          THEN NumDiv(matched, MapSize(expectedMap)) ELSE RatInt(0),
         correct |-> matched = MapSize(expectedMap)
                        /\ MapSize(submittedMap) = MapSize(expectedMap)]

scorePairMatchSet(spec, answer, t) ==
    LET questionResults ==
            [i \in 1..Len(spec.questions) |->
                LET question == spec.questions[i]
                    submittedMatches == IF Has(answer.answers, question.id)
                                            THEN answer.answers[question.id] ELSE <<>>
                    unit == pairMatchUnit(question.pairs, submittedMatches)
                IN  UnitResult(unit.correct, unit.accuracy, omiMappingOrEmpty(question))]
        totalCorrect == CountCorrect(questionResults)
        omiEvidenceMap == accumulateResults(<<>>, questionResults)
        allCorrect == totalCorrect = Len(spec.questions)
    IN  [gameId |-> spec.id,
         correct |-> allCorrect,
         score |-> NumDiv(totalCorrect, Len(spec.questions)),
         feedback |-> setFeedback(allCorrect, totalCorrect, Len(spec.questions),
                                  "got", "pair-matching questions correct"),
         omiEvidence |-> evidenceFromMap(omiEvidenceMap, t)]

\* scoreFillInTheBlanks with an all-or-nothing score (the score of the other atomic games)
scoreFillInTheBlanks_allOrNothing(spec, answer, t) ==
    LET correctAnswers == correctBlanks(spec.sentences, answer.answers)
        correct == correctAnswers = Len(spec.sentences)
    IN  [gameId |-> spec.id,
         correct |-> correct,
         score |-> Bit(correct),
         feedback |-> "",
         omiEvidence |-> generateOMIEvidence(spec, correct,
                             NumDiv(correctAnswers, Len(spec.sentences)), t)]

scoreFillInTheBlanks(spec, answer, t) ==
    LET correctAnswers == correctBlanks(spec.sentences, answer.answers)
        accuracy == NumDiv(correctAnswers, Len(spec.sentences))
        correct == correctAnswers = Len(spec.sentences)
    IN  [gameId |-> spec.id,
         correct |-> correct,
         score |-> accuracy,
         feedback |-> IF correct THEN "Perfect! All blanks filled correctly!"
                      ELSE "You got " \o ToString(correctAnswers) \o " out of "
                               \o ToString(Len(spec.sentences)) \o " blanks correct.",
         omiEvidence |-> generateOMIEvidence(spec, correct, accuracy, t)]

\* the evidence list of scoreFillInTheBlanksSet (accuracy guarded by stats.total > 0)
evidenceFromMapGuarded(map, t) ==
    [i \in 1..Len(map) |->
        [omiId |-> map[i].omiId,
         demonstrated |-> map[i].correct = map[i].total,
         accuracy |-> IF map[i].total > 0 THEN entryAccuracy(map[i]) ELSE RatInt(0),
         timestamp |-> t]]

scoreFillInTheBlanksSet(spec, answer, t) ==
    LET questionResults ==
            [i \in 1..Len(spec.questions) |->
                LET question == spec.questions[i]
                    questionAnswer == IF Has(answer.answers, question.id)
                                          THEN answer.answers[question.id] ELSE <<>>
                    totalSentences == Len(question.sentences)
                    blanks == correctBlanks(question.sentences, questionAnswer)
                    accuracy == IF totalSentences > 0
                                    THEN NumDiv(blanks, totalSentences) ELSE RatInt(0)
                    correct == accuracy = RatInt(1)
                IN  UnitResult(correct, accuracy, metadataOmisOrEmpty(question))]
        totalCorrect == CountCorrect(questionResults)
        score == IF Len(spec.questions) > 0
                     THEN NumDiv(totalCorrect, Len(spec.questions)) ELSE RatInt(0)
        overallCorrect == totalCorrect = Len(spec.questions)
        omiEvidenceMap == accumulateResults(<<>>, questionResults)
    IN  [gameId |-> spec.id,
         correct |-> overallCorrect,
         score |-> score,
         feedback |-> IF overallCorrect
                          THEN "Outstanding! Every blank across the set is correct."
                      ELSE IF totalCorrect = 0
                          THEN "Keep practising. Review the terms and try again."
                      ELSE "Great effort. Review the highlighted sentences and try again.",
         omiEvidence |-> evidenceFromMapGuarded(omiEvidenceMap, t)]

\* the switch on activity.type: correct and accuracy of one answered activity
activityUnit(activity, activityAnswer) ==
    IF activity.type = "mcq" THEN
        LET correct == activityAnswer.optionId = activity.correctOptionId
        IN  [correct |-> correct, accuracy |-> Bit(correct)]
    ELSE IF activity.type = "ordering" THEN
        [correct |-> arraysMatch(activity.items, activityAnswer.order),
         accuracy |-> NumDiv(correctPositions(activity.items, activityAnswer.order),
                             Len(activity.items))]
    ELSE IF activity.type = "pair-match" THEN
        pairMatchUnit(activity.pairs, activityAnswer.matches)
    ELSE IF activity.type = "fill-in-the-blanks" THEN
        LET blanks == correctBlanks(activity.sentences, activityAnswer.answers)
        IN  [correct |-> blanks = Len(activity.sentences),
             accuracy |-> NumDiv(blanks, Len(activity.sentences))]
    ELSE [correct |-> FALSE, accuracy |-> RatInt(0)]

\* an unanswered activity pushed as an incorrect result instead of being skipped
unansweredActivity_counted(results, activity) ==
    Append(results, UnitResult(FALSE, RatInt(0), omiMappingOrEmpty(activity)))

\* an unanswered activity passed as a correct result instead of being skipped
unansweredActivity_passed(results, activity) ==
    Append(results, UnitResult(TRUE, RatInt(1), omiMappingOrEmpty(activity)))

\* if (!activityAnswer) continue
unansweredActivity(results, activity) == results

\* for (const activity of spec.activities) { ... activityResults.push(...) }
RECURSIVE activityLoop(_, _, _)
activityLoop(activities, activityAnswers, results) ==
    IF activities = <<>> THEN results
    ELSE LET activity == Head(activities)
         IN  IF ~Has(activityAnswers, activity.id)
                 THEN activityLoop(Tail(activities), activityAnswers,
                                   unansweredActivity(results, activity))
                 ELSE LET unit == activityUnit(activity, activityAnswers[activity.id])
                      IN  activityLoop(Tail(activities), activityAnswers,
                                       Append(results,
                                              UnitResult(unit.correct, unit.accuracy,
                                                         omiMappingOrEmpty(activity))))

scoreActivitySet(spec, answer, t) ==
    LET activityResults == activityLoop(spec.activities, answer.answers, <<>>)
        totalCorrect == CountCorrect(activityResults)
        omiEvidenceMap == accumulateResults(<<>>, activityResults)
        allCorrect == totalCorrect = Len(spec.activities)
        n == ToString(Len(spec.activities))
    IN  [gameId |-> spec.id,
         correct |-> allCorrect,
         score |-> NumDiv(totalCorrect, Len(spec.activities)),
         feedback |-> IF allCorrect
                          THEN "Perfect! You completed all " \o n \o " activities correctly!"
                          ELSE "You completed " \o ToString(totalCorrect) \o " out of " \o n
                                   \o " activities correctly.",
         omiEvidence |-> evidenceFromMap(omiEvidenceMap, t)]

scoreClassificationSet(spec, answer, t) ==
    LET activityResults ==
            [i \in 1..Len(spec.questions) |->
                LET question == spec.questions[i]
                    questionAnswers == IF Has(answer.answers, question.id)
                                           THEN answer.answers[question.id] ELSE <<>>
                    classified == correctClassifications(question.items, questionAnswers)
                    accuracy == IF Len(question.items) > 0
                                    THEN NumDiv(classified, Len(question.items))
                                    ELSE RatInt(0)
                    correct == classified = Len(question.items)
                IN  UnitResult(correct, accuracy, omiMappingOrEmpty(question))]
        totalCorrect == CountCorrect(activityResults)
        omiEvidenceMap == accumulateResults(<<>>, activityResults)
        allCorrect == totalCorrect = Len(spec.questions)
        n == ToString(Len(spec.questions))
        noun == IF Len(spec.questions) = 1 THEN "question" ELSE "questions"
    IN  [gameId |-> spec.id,
         correct |-> allCorrect,
         score |-> IF Len(spec.questions) > 0
                       THEN NumDiv(totalCorrect, Len(spec.questions)) ELSE RatInt(0),
         feedback |-> IF allCorrect
                          THEN "Perfect! You correctly classified all items in " \o n
                                   \o " " \o noun \o "!"
                          ELSE "You got " \o ToString(totalCorrect) \o " out of " \o n
                                   \o " " \o noun \o " completely correct.",
         omiEvidence |-> evidenceFromMap(omiEvidenceMap, t)]

\* scoreGame: null on a type mismatch or an unknown type, else the scorer of the type
scoreGame(spec, answer, t) ==
    IF spec.type # answer.type THEN Null
    ELSE IF spec.type = "mcq" THEN scoreMcq(spec, answer.payload, t)
    ELSE IF spec.type = "mcq-set" THEN scoreMcqSet(spec, answer.payload, t)
    ELSE IF spec.type = "ordering" THEN scoreOrdering(spec, answer.payload, t)
    ELSE IF spec.type = "ordering-set" THEN scoreOrderingSet(spec, answer.payload, t)
    ELSE IF spec.type = "pair-match" THEN scorePairMatch(spec, answer.payload, t)
    ELSE IF spec.type = "pair-match-set" THEN scorePairMatchSet(spec, answer.payload, t)
    ELSE IF spec.type = "fill-in-the-blanks"
        THEN scoreFillInTheBlanks(spec, answer.payload, t)
    ELSE IF spec.type = "fill-in-the-blanks-set"
        THEN scoreFillInTheBlanksSet(spec, answer.payload, t)
    ELSE IF spec.type = "activity-set" THEN scoreActivitySet(spec, answer.payload, t)
    ELSE IF spec.type = "classification-set"
        THEN scoreClassificationSet(spec, answer.payload, t)
    ELSE Null

----------------------------------------------------------------------------
(* Inputs of the store specifications *)

Evidence(omiId, demonstrated, accuracy, timestamp) ==
    [omiId |-> omiId, demonstrated |-> demonstrated,
     accuracy |-> accuracy, timestamp |-> timestamp]

\* evidence entries a call may carry at time t in Spec
EvidenceAt(t) ==
    {Evidence(o, d, RatInt(a), t) : o \in OmiIds, d \in BOOLEAN, a \in {0, 1}}

\* evidence entries of SpecHist: one OMI, success / failure / half-right failure
HistEvidenceAt(t) ==
    {Evidence("a", TRUE, RatInt(1), t),
     Evidence("a", FALSE, RatInt(0), t),
     Evidence("a", FALSE, Rat(1, 2), t)}

RECURSIVE SeqsUpTo(_, _)
\* the nonempty sequences over S of length <= n
SeqsUpTo(S, n) ==
    IF n = 0 THEN {}
    ELSE LET shorter == SeqsUpTo(S, n - 1)
         IN  {<<x>> : x \in S} \cup {Append(s, x) : s \in shorter, x \in S}

RECURSIVE SumLen(_, _)
SumLen(f, D) ==
    IF D = {} THEN 0
    ELSE LET x == CHOOSE y \in D : TRUE IN Len(f[x]) + SumLen(f, D \ {x})

Recorded == SumLen(evidenceLog, OmiIds)

\* the log extended by the entries of a list, each under its omiId
RECURSIVE LogAppend(_, _)
LogAppend(log, evidenceList) ==
    IF evidenceList = <<>> THEN log
    ELSE LET e == Head(evidenceList)
         IN  LogAppend([log EXCEPT ![e.omiId] = Append(@, e)], Tail(evidenceList))

----------------------------------------------------------------------------
(* Spec: the store under recordOMIEvidence calls with lists over two OMIs *)

StoreInit ==
    /\ omiProgress = <<>>
    /\ evidenceLog = [o \in OmiIds |-> <<>>]
    /\ now = 0
    /\ lastOp = [op |-> "init"]
    /\ answers = <<>>
    /\ evaluations = <<>>
    /\ timers = <<>>
    /\ submittedQuestions = <<>>
    /\ askedQuestions = <<>>

\* no GameRenderer is mounted
RendererInit ==
    /\ mounted = FALSE
    /\ intervalRef = 0
    /\ intervals = {}
    /\ effectRuns = 0
    /\ hasSubmitted = FALSE
    /\ draftAnswers = <<>>

Init ==
    /\ StoreInit
    /\ RendererInit
    /\ validatedSpec = Null /\ envelope = Null /\ evaluation = Null

RecordOMIEvidence ==
    \E evidenceList \in SeqsUpTo(EvidenceAt(now + 1), MaxList) :
        /\ Recorded + Len(evidenceList) <= MaxRecorded
        /\ omiProgress' = recordOMIEvidence(omiProgress, evidenceList)
        /\ evidenceLog' = LogAppend(evidenceLog, evidenceList)
        /\ now' = now + 1
        /\ lastOp' = [op |-> "recordOMIEvidence", evidenceList |-> evidenceList]
        /\ UNCHANGED <<scoreVars, sessionVars, rendererVars>>
        /\ UNCHANGED showdownVars

Next == RecordOMIEvidence

Spec == Init /\ [][Next]_vars

----------------------------------------------------------------------------
(* SpecHist: long runs of single-entry calls on one OMI *)

RecordOne ==
    \E evidence \in HistEvidenceAt(now + 1) :
        /\ Recorded < MaxHistAttempts
        /\ omiProgress' = recordOMIEvidence(omiProgress, <<evidence>>)
        /\ evidenceLog' = LogAppend(evidenceLog, <<evidence>>)
        /\ now' = now + 1
        /\ lastOp' = [op |-> "recordOMIEvidence", evidenceList |-> <<evidence>>]
        /\ UNCHANGED <<scoreVars, sessionVars, rendererVars>>
        /\ UNCHANGED showdownVars

NextHist == RecordOne

SpecHist == Init /\ [][NextHist]_vars

----------------------------------------------------------------------------
(* SpecScore: scoreGame applied to bounded validated specs and answers *)

\* a record extended (or overwritten) by one field
Ext(r, f, v) == [x \in DOMAIN r \cup {f} |-> IF x = f THEN v ELSE r[x]]

\* omiMapping / metadata.omis lists: empty, one id, two ids, one id twice
OmiLists == {<<>>, <<"a">>, <<"a", "b">>, <<"a", "a">>}
ShortOmiLists == {<<"a">>, <<"a", "b">>}

\* a unit without omiMapping and with each omiMapping of L
WithOmiMapping(unit, L) == {unit} \cup {Ext(unit, "omiMapping", m) : m \in L}

\* a spec without metadata, with metadata lacking omis, and with each metadata.omis of L
WithMetadataOmis(spec, L) ==
    {spec, Ext(spec, "metadata", [subject |-> "s"])}
        \cup {Ext(spec, "metadata", [omis |-> m]) : m \in L}

\* a unit scenario: the unit of the spec and, when answered, the answer given for it
Scenarios(units, values) ==
    {[unit |-> u] : u \in units} \cup {[unit |-> u, value |-> v] : u \in units, v \in values}

McqUnits == {[type |-> "mcq", correctOptionId |-> k] : k \in {"B", "C"}}
OrderingUnits == {[type |-> "ordering", items |-> <<"x", "y", "z">>]}
Pair(l, r) == [left |-> l, right |-> r]
PairMatchUnits == {[type |-> "pair-match", pairs |-> <<Pair("l1", "r1"), Pair("l2", "r2")>>]}
Sentence(id, word) == [id |-> id, blank_answer |-> word]
FillUnits == {[type |-> "fill-in-the-blanks",
               sentences |-> <<Sentence("s1", "w1"), Sentence("s2", "w2")>>]}
Item(id, category) == [id |-> id, correctCategoryId |-> category]
ClassificationUnits == {[type |-> "classification",
                         items |-> <<Item("i1", "c1"), Item("i2", "c2")>>]}

McqChoices == {"B", "D"}
Orders == {<<"x", "y", "z">>, <<"x", "z", "y">>, <<"x", "y">>, <<"x", "y", "z", "w">>}
Matches == {<<Pair("l1", "r1"), Pair("l2", "r2")>>,
            <<Pair("l1", "r1")>>,
            <<Pair("l1", "r1"), Pair("l2", "r1")>>,
            <<Pair("l1", "r1"), Pair("l2", "r2"), Pair("l3", "r3")>>,
            <<Pair("l1", "r2"), Pair("l1", "r1"), Pair("l2", "r2")>>}
Blanks == {[s1 |-> "w1", s2 |-> "w2"], [s1 |-> "w1"], [s1 |-> "w2"]}
Categories == {[i1 |-> "c1", i2 |-> "c2"], [i1 |-> "c1"], [i1 |-> "c2", i2 |-> "c2"]}

\* fill-in-the-blanks questions carry omiMapping and metadata.omis independently
FillSetUnits ==
    UNION {WithMetadataOmis(u, {<<"a">>, <<"a", "b">>, <<"a", "a">>}) : u \in FillUnits}
        \cup {Ext(u, "omiMapping", <<"a">>) : u \in FillUnits}
        \cup {Ext(Ext(u, "omiMapping", <<"a">>), "metadata", [omis |-> <<"b">>]) :
                u \in FillUnits}

\* the activities of an activity-set: all four unit types, each with its own answer shape
ActivityScenarios ==
    Scenarios(UNION {WithOmiMapping(u, ShortOmiLists) : u \in McqUnits \ {[type |-> "mcq", correctOptionId |-> "C"]}},
              {[optionId |-> c] : c \in McqChoices})
    \cup Scenarios(UNION {WithOmiMapping(u, ShortOmiLists) : u \in OrderingUnits},
                   {[order |-> o] : o \in {<<"x", "y", "z">>, <<"x", "z", "y">>}})
    \cup Scenarios(UNION {WithOmiMapping(u, ShortOmiLists) : u \in PairMatchUnits},
                   {[matches |-> m] : m \in {<<Pair("l1", "r1"), Pair("l2", "r2")>>,
                                              <<Pair("l1", "r1")>>}})
    \cup Scenarios(UNION {WithOmiMapping(u, ShortOmiLists) : u \in FillUnits},
                   {[answers |-> b] : b \in {[s1 |-> "w1", s2 |-> "w2"], [s1 |-> "w1"]}})

SetTypes == {"mcq-set", "ordering-set", "pair-match-set", "fill-in-the-blanks-set",
             "classification-set", "activity-set"}

UnitScenarios(type) ==
    IF type = "mcq-set"
        THEN Scenarios(UNION {WithOmiMapping(u, OmiLists) : u \in McqUnits}, McqChoices)
    ELSE IF type = "ordering-set"
        THEN Scenarios(UNION {WithOmiMapping(u, OmiLists) : u \in OrderingUnits}, Orders)
    ELSE IF type = "pair-match-set"
        THEN Scenarios(UNION {WithOmiMapping(u, OmiLists) : u \in PairMatchUnits}, Matches)
    ELSE IF type = "fill-in-the-blanks-set"
        THEN Scenarios(FillSetUnits, Blanks)
    ELSE IF type = "classification-set"
        THEN Scenarios(UNION {WithOmiMapping(u, OmiLists) : u \in ClassificationUnits},
                       Categories)
    ELSE ActivityScenarios

UnitId(i) == "q" \o ToString(i)

\* the sub-units of the spec: the scenario's units with their ids
UnitsOf(sc) == [i \in 1..Len(sc) |-> Ext(sc[i].unit, "id", UnitId(i))]

\* the submission's answers: Record<unitId, value> over the answered units
AnswersOf(sc) ==
    [id \in {UnitId(i) : i \in {j \in 1..Len(sc) : Has(sc[j], "value")}} |->
        sc[CHOOSE i \in 1..Len(sc) : UnitId(i) = id].value]

SetGame(type, sc) ==
    IF type = "activity-set"
        THEN [id |-> "g1", type |-> type, activities |-> UnitsOf(sc)]
        ELSE [id |-> "g1", type |-> type, questions |-> UnitsOf(sc)]

Envelope(type, payload) == [type |-> type, payload |-> payload]

\* scoreGame's inputs for a set spec of the type: its sub-units and the answers given
SetInput(type, sc) ==
    [game |-> SetGame(type, sc), answer |-> Envelope(type, [answers |-> AnswersOf(sc)])]

\* atomic games: the unit's answer key with id and metadata, and an answer payload
AtomicGames(type, units) ==
    UNION {WithMetadataOmis(Ext(u, "id", "g1"), OmiLists) : u \in units}

AtomicInputs ==
    {[game |-> g, answer |-> Envelope("mcq", [optionId |-> c])] :
        g \in AtomicGames("mcq", McqUnits), c \in McqChoices}
    \cup {[game |-> g, answer |-> Envelope("ordering", [order |-> o])] :
        g \in AtomicGames("ordering", OrderingUnits), o \in Orders}
    \cup {[game |-> g, answer |-> Envelope("pair-match", [matches |-> m])] :
        g \in AtomicGames("pair-match", PairMatchUnits), m \in Matches}
    \cup {[game |-> g, answer |-> Envelope("fill-in-the-blanks", [answers |-> b])] :
        g \in AtomicGames("fill-in-the-blanks", FillUnits), b \in Blanks}

ScoreInit ==
    /\ StoreInit
    /\ RendererInit
    /\ \/ \E type \in SetTypes : \E n \in 1..MaxUnits :
            \E sc \in [1..n -> UnitScenarios(type)] :
                /\ validatedSpec = SetInput(type, sc).game
                /\ envelope = SetInput(type, sc).answer
       \/ \E input \in AtomicInputs :
                validatedSpec = input.game /\ envelope = input.answer
    /\ evaluation = Null

\* const result = scoreGame(validatedSpec, envelope)
ScoreGame ==
    /\ evaluation = Null
    /\ now < MaxSubmissions
    /\ evaluation' = scoreGame(validatedSpec, envelope, now + 1)
    /\ now' = now + 1
    /\ lastOp' = [op |-> "scoreGame"]
    /\ UNCHANGED <<validatedSpec, envelope, storeVars, sessionVars, rendererVars>>
    /\ UNCHANGED showdownVars

NextScore == ScoreGame

SpecScore == ScoreInit /\ [][NextScore]_vars

\* the least number of sub-units the schema lets a set spec have
MinUnits == 1

\* scoreGame called on set specs that did not pass the schema: from no sub-unit up to
\* the schema's minimum
UncheckedInit ==
    /\ StoreInit
    /\ RendererInit
    /\ \E type \in SetTypes : \E n \in 0..MinUnits :
            \E sc \in [1..n -> UnitScenarios(type)] :
                /\ validatedSpec = SetInput(type, sc).game
                /\ envelope = SetInput(type, sc).answer
    /\ evaluation = Null

SpecUnchecked == UncheckedInit /\ [][NextScore]_vars

----------------------------------------------------------------------------
(* The store: session state (lib/store.ts) *)

\* { ...map, [key]: value } is MapSet; const { [key]: _removed, ...rest } = map
MapRemove(m, key) == [k \in DOMAIN m \ {key} |-> m[k]]

setAnswer(state, gameId, payload) == MapSet(state, gameId, payload)
setEvaluation(state, gameId, result) == MapSet(state, gameId, result)
clearAnswer(state, gameId) == MapRemove(state, gameId)
clearEvaluation(state, gameId) == MapRemove(state, gameId)

TimerState(remainingSec, active) == [remainingSec |-> remainingSec, active |-> active]

\* initTimer: the new timers
initTimer(state, gameId, timeLimitSec) ==
    IF timeLimitSec <= 0 THEN state
    ELSE MapSet(state, gameId, TimerState(timeLimitSec, TRUE))

\* tickTimer's early return taken for an absent timer only
tickReturnsUndefined_absentOnly(state, gameId) == ~Has(state, gameId)

\* tickTimer returns undefined (changes nothing) on an absent or inactive timer
tickReturnsUndefined(state, gameId) == ~Has(state, gameId) \/ ~state[gameId].active

Max(x, y) == IF x >= y THEN x ELSE y

\* tickTimer: the value returned when it is not undefined
tickNext(state, gameId) == Max(0, state[gameId].remainingSec - 1)

\* tickTimer: the new timers
tickTimer(state, gameId) ==
    IF tickReturnsUndefined(state, gameId) THEN state
    ELSE LET next == tickNext(state, gameId)
         IN  MapSet(state, gameId, TimerState(next, next > 0))

\* stopTimer: the new timers
stopTimer(state, gameId) ==
    IF ~Has(state, gameId) THEN state
    ELSE MapSet(state, gameId, [state[gameId] EXCEPT !.active = FALSE])

----------------------------------------------------------------------------
(* SpecRenderer: one GameRenderer over the store (components/GameRenderer.tsx) *)

\* the games the renderer is given: an MCQ with or without a time limit
TimedGames ==
    LET base == [id |-> "g1", type |-> "mcq", correctOptionId |-> "B",
                 metadata |-> [omis |-> <<"a">>]]
    IN  {base} \cup {Ext(base, "timeLimitSec", n) : n \in 1..MaxTimeLimit}

\* a showdown of a showdown-set: the stronger option and its reasons, two of them right
Reason(id, correct) == [id |-> id, correct |-> correct]
Showdown(id) ==
    [id |-> id, correctOptionId |-> "A",
     reasonOptions |-> <<Reason("r1", TRUE), Reason("r2", TRUE), Reason("r3", FALSE)>>]

\* a showdown-set (its schema has no timeLimitSec)
ShowdownGames == {[id |-> "g1", type |-> "showdown-set", showdowns |-> <<Showdown("q1")>>]}

\* the ShowdownSetAnswer payloads handed to onSubmit: a right and a wrong selection
ShowdownPayloads ==
    {[answers |-> [q1 |-> [optionId |-> o, reasonIds |-> <<"r1", "r2">>]]] : o \in {"A", "B"}}

specId == validatedSpec.id

\* 'timeLimitSec' in validatedSpec ? validatedSpec.timeLimitSec : undefined (0: undefined)
timeLimit == IF Has(validatedSpec, "timeLimitSec") THEN validatedSpec.timeLimitSec ELSE 0

\* const isTimeExpired = Boolean(timer && timer.remainingSec === 0)
isTimeExpired == Has(timers, specId) /\ timers[specId].remainingSec = 0

\* disabled without the stored evaluation: only the expired timer disables
disabled_timeOnly == isTimeExpired

\* disabled: isTimeExpired || Boolean(evaluation)
disabled == isTimeExpired \/ Has(evaluations, specId)

RendererSpecInit ==
    /\ StoreInit
    /\ RendererInit
    /\ validatedSpec \in TimedGames
    /\ envelope = Null
    /\ evaluation = Null

\* clearInterval(intervalRef.current) under if (intervalRef.current): the live intervals
clearedIntervals == IF intervalRef # 0 THEN intervals \ {intervalRef} ELSE intervals

\* the timer effect's body: initTimer and setInterval, nothing without a time limit
TimerEffectBody(timersBefore, intervalsBefore) ==
    IF timeLimit = 0
        THEN /\ timers' = timersBefore
             /\ intervals' = intervalsBefore
             /\ UNCHANGED intervalRef
        ELSE /\ timers' = initTimer(timersBefore, specId, timeLimit)
             /\ intervalRef' = effectRuns + 1
             /\ intervals' = intervalsBefore \cup {effectRuns + 1}

\* first render: the effects run in order (ready is emitted, the timer effect starts)
Mount ==
    /\ ~mounted
    /\ effectRuns < MaxEffectRuns
    /\ mounted' = TRUE
    /\ TimerEffectBody(timers, intervals)
    /\ effectRuns' = effectRuns + 1
    /\ hasSubmitted' = FALSE
    /\ lastOp' = [op |-> "mount", emitted |-> <<"ready">>]
    /\ UNCHANGED <<answers, evaluations, storeVars, now, scoreVars>>
    /\ UNCHANGED showdownVars

\* a re-render with a new onEvent identity: the timer effect's cleanup (clearInterval,
\* stopTimer), then its body again
RerunTimerEffect ==
    /\ mounted
    /\ timeLimit # 0
    /\ effectRuns < MaxEffectRuns
    /\ TimerEffectBody(stopTimer(timers, specId), clearedIntervals)
    /\ effectRuns' = effectRuns + 1
    /\ lastOp' = [op |-> "rerunTimerEffect", emitted |-> <<>>]
    /\ UNCHANGED <<mounted, hasSubmitted, answers, evaluations, storeVars, now, scoreVars>>
    /\ UNCHANGED showdownVars

\* the interval callback of a live interval
Tick ==
    \E id \in intervals :
        /\ timers' = tickTimer(timers, specId)
        /\ IF tickReturnsUndefined(timers, specId)
               THEN /\ lastOp' = [op |-> "tick", emitted |-> <<>>]
                    /\ UNCHANGED intervals
               ELSE IF tickNext(timers, specId) = 0
                   THEN /\ lastOp' = [op |-> "tick", emitted |-> <<"time.expired">>]
                        /\ intervals' = clearedIntervals
                   ELSE /\ lastOp' = [op |-> "tick", emitted |-> <<>>]
                        /\ UNCHANGED intervals
        /\ UNCHANGED <<mounted, intervalRef, effectRuns, hasSubmitted, answers, evaluations,
                       storeVars, now, scoreVars>>
        /\ UNCHANGED showdownVars

\* the submission of handleSubmit taken whether or not a result came back
resultPresent_always(result) == TRUE

\* if (result) { ... }
resultPresent(result) == result # Null

\* the payloads the mounted game's component passes to onSubmit
SubmitPayloads ==
    IF validatedSpec.type = "showdown-set"
        THEN ShowdownPayloads
        ELSE {[optionId |-> optionId] : optionId \in McqChoices}

\* handleSubmit, reached through the child's submit control (not disabled)
HandleSubmit ==
    \E payload \in SubmitPayloads :
        LET submittedEnvelope == Envelope(validatedSpec.type, payload)
            result == scoreGame(validatedSpec, submittedEnvelope, now + 1)
            hasEvidence == Has(result, "omiEvidence") /\ Len(result.omiEvidence) > 0
        IN  /\ mounted
            /\ ~disabled
            /\ now < MaxSubmissions
            /\ answers' = setAnswer(answers, specId, submittedEnvelope)
            /\ now' = now + 1
            /\ IF resultPresent(result)
                   THEN /\ evaluations' = setEvaluation(evaluations, specId, result)
                        /\ timers' = stopTimer(timers, specId)
                        /\ omiProgress' = IF hasEvidence
                                              THEN recordOMIEvidence(omiProgress, result.omiEvidence)
                                              ELSE omiProgress
                        /\ evidenceLog' = IF hasEvidence
                                              THEN LogAppend(evidenceLog, result.omiEvidence)
                                              ELSE evidenceLog
                        /\ hasSubmitted' = TRUE
                        /\ lastOp' = [op |-> "handleSubmit", result |-> result,
                                      emitted |-> <<"answer.submitted", "evaluate.requested">>
                                          \o (IF hasEvidence THEN <<"omi.evidence">> ELSE <<>>)
                                          \o <<"game.completed">>]
                   ELSE /\ lastOp' = [op |-> "handleSubmit", result |-> result,
                                      emitted |-> <<"answer.submitted", "evaluate.requested">>]
                        /\ UNCHANGED <<evaluations, timers, storeVars, hasSubmitted>>
            /\ UNCHANGED <<mounted, intervalRef, intervals, effectRuns, scoreVars>>
            /\ UNCHANGED showdownVars

\* handleReset: clearAnswer and clearEvaluation
HandleReset ==
    /\ mounted
    /\ answers' = clearAnswer(answers, specId)
    /\ evaluations' = clearEvaluation(evaluations, specId)
    /\ lastOp' = [op |-> "handleReset", emitted |-> <<>>]
    /\ UNCHANGED <<timers, rendererVars, storeVars, now, scoreVars>>
    /\ UNCHANGED showdownVars

\* handleAnswerChange: setAnswer, then clearEvaluation
HandleAnswerChange ==
    \E payload \in SubmitPayloads :
        /\ mounted
        /\ answers' = setAnswer(answers, specId, Envelope(validatedSpec.type, payload))
        /\ evaluations' = clearEvaluation(evaluations, specId)
        /\ lastOp' = [op |-> "handleAnswerChange", emitted |-> <<>>]
        /\ UNCHANGED <<timers, rendererVars, storeVars, now, scoreVars>>
        /\ UNCHANGED showdownVars

\* resetGame: the entries of the game removed from answers, evaluations and timers
resetGameAnswers(state, gameId) == MapRemove(state, gameId)
resetGameEvaluations(state, gameId) == MapRemove(state, gameId)
\* resetGame leaving the timers as they are
resetGameTimers_kept(state, gameId) == state

resetGameTimers(state, gameId) == MapRemove(state, gameId)

\* unmount: the cleanups of the effects (resetGame; clearInterval and stopTimer)
Unmount ==
    /\ mounted
    /\ mounted' = FALSE
    /\ answers' = resetGameAnswers(answers, specId)
    /\ evaluations' = resetGameEvaluations(evaluations, specId)
    /\ timers' = stopTimer(resetGameTimers(timers, specId), specId)
    /\ intervals' = clearedIntervals
    /\ intervalRef' = 0
    /\ hasSubmitted' = FALSE
    /\ lastOp' = [op |-> "unmount", emitted |-> <<>>]
    /\ UNCHANGED <<effectRuns, storeVars, now, scoreVars>>
    /\ UNCHANGED showdownVars

NextRenderer ==
    \/ Mount
    \/ RerunTimerEffect
    \/ Tick
    \/ HandleSubmit
    \/ HandleReset
    \/ HandleAnswerChange
    \/ Unmount

SpecRenderer == RendererSpecInit /\ [][NextRenderer]_vars

\* the renderer mounted over a store that another game (g2) and earlier sessions have
\* left entries in
OtherGame == "g2"
UsedStoreInit ==
    /\ RendererInit
    /\ validatedSpec \in TimedGames
    /\ envelope = Null
    /\ evaluation = Null
    /\ omiProgress = <<>>
    /\ evidenceLog = [o \in OmiIds |-> <<>>]
    /\ now = 0
    /\ lastOp = [op |-> "init"]
    /\ answers = [g2 |-> Envelope("mcq", [optionId |-> "D"])]
    /\ evaluations \in {<<>>, [g2 |-> [gameId |-> OtherGame, correct |-> FALSE,
                                        score |-> RatInt(0), feedback |-> "",
                                        omiEvidence |-> <<>>]]}
    /\ timers \in {[g2 |-> TimerState(1, TRUE)], [g2 |-> TimerState(0, FALSE)]}
    /\ submittedQuestions = <<[gameId |-> OtherGame, questionId |-> "q1",
                               correct |-> TRUE, timestamp |-> 0]>>
    /\ askedQuestions = <<[specPath |-> "p1", questionId |-> "q1", timestamp |-> 0]>>

SpecUnmount == UsedStoreInit /\ [][NextRenderer]_vars

----------------------------------------------------------------------------
(* SpecSubmit: the renderer over every kind of game, and scoreGame called directly *)

\* envelopes handed to scoreGame directly, of the spec's type or of another type
DirectEnvelopes ==
    {Envelope("mcq", [optionId |-> "B"]),
     Envelope("ordering", [order |-> <<"x", "y">>])}
        \cup {Envelope("showdown-set", p) : p \in ShowdownPayloads}

SubmitInit ==
    /\ StoreInit
    /\ RendererInit
    /\ validatedSpec \in TimedGames \cup ShowdownGames
    /\ envelope \in DirectEnvelopes
    /\ evaluation = Null

NextSubmit ==
    \/ NextRenderer
    \/ ScoreGame

SpecSubmit == SubmitInit /\ [][NextSubmit]_vars

\* the rest of handleSubmit once scoreGame has returned a result: the answer and the
\* result are stored and the evidence is recorded
KeepResult ==
    /\ evaluation # Null
    /\ ~Has(evaluations, validatedSpec.id)
    /\ answers' = setAnswer(answers, validatedSpec.id, envelope)
    /\ evaluations' = setEvaluation(evaluations, validatedSpec.id, evaluation)
    /\ timers' = stopTimer(timers, validatedSpec.id)
    /\ omiProgress' = IF Len(evaluation.omiEvidence) > 0
                          THEN recordOMIEvidence(omiProgress, evaluation.omiEvidence)
                          ELSE omiProgress
    /\ evidenceLog' = IF Len(evaluation.omiEvidence) > 0
                          THEN LogAppend(evidenceLog, evaluation.omiEvidence)
                          ELSE evidenceLog
    /\ lastOp' = [op |-> "keepResult"]
    /\ UNCHANGED <<now, scoreVars, rendererVars>>
    /\ UNCHANGED showdownVars

\* scoreGame called once more with the same spec and answer, at a later time
Reevaluate ==
    /\ evaluation # Null
    /\ now < MaxSubmissions
    /\ evaluation' = scoreGame(validatedSpec, envelope, now + 1)
    /\ now' = now + 1
    /\ lastOp' = [op |-> "scoreGame", previous |-> evaluation]
    /\ UNCHANGED <<validatedSpec, envelope, storeVars, sessionVars, rendererVars>>
    /\ UNCHANGED showdownVars

NextRepeat == ScoreGame \/ KeepResult \/ Reevaluate

SpecRepeat == ScoreInit /\ [][NextRepeat]_vars

----------------------------------------------------------------------------
(* SpecShowdown: the ShowdownSet component (components/games/ShowdownSet.tsx) *)

\* ShowdownState.optionId = null
NoOption == "(null)"

\* a value of optionId that is neither null nor ''
Truthy(optionId) == optionId # NoOption /\ optionId # ""

\* array.includes(x)
Includes(seq, x) == \E i \in 1..Len(seq) : seq[i] = x

ShowdownIds(spec) == {spec.showdowns[i].id : i \in 1..Len(spec.showdowns)}

\* spec.showdowns.find((sd) => sd.id === showdownId)
showdownById(spec, showdownId) ==
    LET first == CHOOSE i \in 1..Len(spec.showdowns) :
                    /\ spec.showdowns[i].id = showdownId
                    /\ \A j \in 1..(i - 1) : spec.showdowns[j].id # showdownId
    IN  spec.showdowns[first]

\* showdown.reasonOptions.filter((reason) => reason.correct).map((reason) => reason.id)
correctReasonIds(showdown) ==
    LET flagged == SelectSeq(showdown.reasonOptions, LAMBDA reason : reason.correct)
    IN  [i \in 1..Len(flagged) |-> flagged[i].id]

analyzeReasonSelection(showdown, draft) ==
    LET correctIds == correctReasonIds(showdown)
        requiredReasonCount == Len(correctIds)
        selectedIds == draft.reasonIds
        selectedCorrectIds == SelectSeq(selectedIds, LAMBDA id : Includes(correctIds, id))
        selectedCorrectCount == Len(selectedCorrectIds)
        hasIncorrectSelection == \E i \in 1..Len(selectedIds) :
                                     ~Includes(correctIds, selectedIds[i])
        allRequiredSelected == selectedCorrectCount = requiredReasonCount
    IN  [requiredReasonCount |-> requiredReasonCount,
         selectedIds |-> selectedIds,
         onlyCorrectSelected |-> /\ allRequiredSelected
                                 /\ ~hasIncorrectSelection
                                 /\ Len(selectedIds) = requiredReasonCount]

isShowdownComplete(spec, showdownId, drafts) ==
    IF showdownId \notin ShowdownIds(spec) THEN FALSE
    ELSE IF ~Has(drafts, showdownId) THEN FALSE
    ELSE IF ~Truthy(drafts[showdownId].optionId) THEN FALSE
    ELSE LET reasonStats == analyzeReasonSelection(showdownById(spec, showdownId),
                                                   drafts[showdownId])
         IN  ~(Len(reasonStats.selectedIds) < reasonStats.requiredReasonCount)

isShowdownCorrect(spec, showdownId, drafts) ==
    IF showdownId \notin ShowdownIds(spec) THEN FALSE
    ELSE IF ~Has(drafts, showdownId) \/ ~Truthy(drafts[showdownId].optionId) THEN FALSE
    ELSE IF drafts[showdownId].optionId # showdownById(spec, showdownId).correctOptionId
        THEN FALSE
    ELSE analyzeReasonSelection(showdownById(spec, showdownId),
                                drafts[showdownId]).onlyCorrectSelected

ShowdownState(optionId, reasonIds) == [optionId |-> optionId, reasonIds |-> reasonIds]

\* the ShowdownSetAnswer built from the drafts (optionId ?? '')
draftPayload(drafts) ==
    [answers |-> [id \in DOMAIN drafts |->
        [optionId |-> IF drafts[id].optionId = NoOption THEN "" ELSE drafts[id].optionId,
         reasonIds |-> drafts[id].reasonIds]]]

\* the answer prop: the stored envelope's payload when its type is the spec's, or Null
answerProp(state) ==
    IF Has(state, specId) /\ state[specId].type = validatedSpec.type
        THEN state[specId].payload ELSE Null

\* the useState initializer of draftAnswers
initialDraft(spec, answer) ==
    [id \in ShowdownIds(spec) |->
        IF answer # Null /\ Has(answer.answers, id)
            THEN ShowdownState(answer.answers[id].optionId, answer.answers[id].reasonIds)
            ELSE ShowdownState(NoOption, <<>>)]

\* the answer sync effect: the answer's entries over the current drafts
syncDraft(spec, answer, drafts) ==
    IF answer = Null THEN drafts
    ELSE [id \in ShowdownIds(spec) |->
            IF Has(answer.answers, id)
                THEN ShowdownState(answer.answers[id].optionId, answer.answers[id].reasonIds)
            ELSE IF Has(drafts, id) THEN drafts[id]
            ELSE ShowdownState(NoOption, <<>>)]

\* markQuestionSubmitted as an append-only log
markQuestionSubmitted_appendOnly(state, gameId, questionId, correct, t) ==
    Append(state, [gameId |-> gameId, questionId |-> questionId,
                   correct |-> correct, timestamp |-> t])

\* markQuestionSubmitted: replace the entry of (gameId, questionId) or append one
markQuestionSubmitted(state, gameId, questionId, correct, t) ==
    LET submission == [gameId |-> gameId, questionId |-> questionId,
                       correct |-> correct, timestamp |-> t]
        matching == {i \in 1..Len(state) :
                        state[i].gameId = gameId /\ state[i].questionId = questionId}
    IN  IF matching # {}
            THEN [state EXCEPT ![CHOOSE i \in matching : \A j \in matching : i <= j]
                                    = submission]
            ELSE Append(state, submission)

\* answers a parent may hand to the component: reason lists as the schema allows them
StoredReasonLists ==
    {<<>>, <<"r1">>, <<"r1", "r2">>, <<"r1", "r1">>, <<"r1", "r2", "r1">>}
StoredShowdownPayloads ==
    {[answers |-> [q1 |-> [optionId |-> o, reasonIds |-> rs]]] :
        o \in {"A", "B"}, rs \in StoredReasonLists}

\* a mounted GameRenderer of a showdown-set whose ShowdownSet child has just mounted
ShowdownInit ==
    /\ validatedSpec \in ShowdownGames
    /\ envelope = Null /\ evaluation = Null
    /\ omiProgress = <<>>
    /\ evidenceLog = [o \in OmiIds |-> <<>>]
    /\ now = 0
    /\ evaluations = <<>> /\ timers = <<>>
    /\ submittedQuestions = <<>>
    /\ askedQuestions = <<>>
    /\ answers \in {<<>>} \cup {[g1 |-> Envelope("showdown-set", p)] :
                                    p \in StoredShowdownPayloads}
    /\ draftAnswers = initialDraft(validatedSpec, answerProp(answers))
    /\ mounted = TRUE /\ intervalRef = 0 /\ intervals = {} /\ effectRuns = 1
    /\ hasSubmitted = FALSE
    /\ lastOp = [op |-> "mount", emitted |-> <<"ready">>]

\* the end of a draft-changing handler: updateGlobalAnswer (the renderer's
\* handleAnswerChange), markQuestionSubmitted when the showdown is complete and
\* judged correct, and the sync effect when the answer prop changed
DraftChanged(op, showdownId, next) ==
    LET judged == isShowdownComplete(validatedSpec, showdownId, next)
                      /\ isShowdownCorrect(validatedSpec, showdownId, next)
    IN  /\ answers' = setAnswer(answers, specId,
                                Envelope(validatedSpec.type, draftPayload(next)))
        /\ evaluations' = clearEvaluation(evaluations, specId)
        /\ submittedQuestions' =
               IF judged
                   THEN markQuestionSubmitted(submittedQuestions, specId, showdownId,
                                              TRUE, now + 1)
                   ELSE submittedQuestions
        /\ now' = IF judged THEN now + 1 ELSE now
        /\ draftAnswers' = IF draftPayload(next) = answerProp(answers)
                               THEN next
                               ELSE syncDraft(validatedSpec, draftPayload(next), next)
        /\ lastOp' = [op |-> op, showdownId |-> showdownId, draft |-> next[showdownId],
                      judgedCorrect |-> isShowdownCorrect(validatedSpec, showdownId, next),
                      emitted |-> <<>>]
        /\ UNCHANGED <<askedQuestions, timers, rendererVars, storeVars, scoreVars>>

HandleOptionChange ==
    \E showdownId \in ShowdownIds(validatedSpec), optionId \in {"A", "B"} :
        /\ mounted /\ ~disabled
        /\ now < MaxMarks
        /\ DraftChanged("handleOptionChange", showdownId,
                        [draftAnswers EXCEPT ![showdownId] =
                            ShowdownState(optionId, draftAnswers[showdownId].reasonIds)])

HandleReasonToggle ==
    \E showdownId \in ShowdownIds(validatedSpec), reasonId \in {"r1", "r2", "r3"} :
        LET current == draftAnswers[showdownId]
            reasonIds == IF Includes(current.reasonIds, reasonId)
                             THEN SelectSeq(current.reasonIds, LAMBDA id : id # reasonId)
                             ELSE Append(current.reasonIds, reasonId)
        IN  /\ mounted /\ ~disabled
            /\ now < MaxMarks
            /\ DraftChanged("handleReasonToggle", showdownId,
                            [draftAnswers EXCEPT ![showdownId] =
                                ShowdownState(current.optionId, reasonIds)])

\* handleResetAll: the drafts emptied, updateGlobalAnswer, then onReset (handleReset)
HandleResetAll ==
    /\ mounted /\ ~disabled
    /\ draftAnswers' = [id \in ShowdownIds(validatedSpec) |-> ShowdownState(NoOption, <<>>)]
    /\ answers' = clearAnswer(setAnswer(answers, specId,
                                        Envelope(validatedSpec.type,
                                                 draftPayload(draftAnswers'))), specId)
    /\ evaluations' = clearEvaluation(evaluations, specId)
    /\ lastOp' = [op |-> "handleResetAll", emitted |-> <<>>]
    /\ UNCHANGED <<submittedQuestions, askedQuestions, now, timers, rendererVars, storeVars,
                 scoreVars>>

\* handleSubmitAll: the complete showdowns judged correct are marked, then onSubmit
\* (the renderer's handleSubmit, for which scoreGame has no result)
HandleSubmitAll ==
    LET showdownId == validatedSpec.showdowns[1].id
        judged == isShowdownComplete(validatedSpec, showdownId, draftAnswers)
                      /\ isShowdownCorrect(validatedSpec, showdownId, draftAnswers)
        submittedEnvelope == Envelope(validatedSpec.type, draftPayload(draftAnswers))
        result == scoreGame(validatedSpec, submittedEnvelope, now + 1)
    IN  /\ mounted /\ ~disabled
        /\ \A id \in ShowdownIds(validatedSpec) :
               isShowdownComplete(validatedSpec, id, draftAnswers)
        /\ now < MaxMarks
        /\ ~resultPresent(result)
        /\ submittedQuestions' =
               IF judged
                   THEN markQuestionSubmitted(submittedQuestions, specId, showdownId,
                                              TRUE, now + 1)
                   ELSE submittedQuestions
        /\ now' = now + 1
        /\ answers' = setAnswer(answers, specId, submittedEnvelope)
        /\ draftAnswers' = IF draftPayload(draftAnswers) = answerProp(answers)
                               THEN draftAnswers
                               ELSE syncDraft(validatedSpec, draftPayload(draftAnswers),
                                              draftAnswers)
        /\ lastOp' = [op |-> "handleSubmitAll", showdownId |-> showdownId,
                      draft |-> draftAnswers[showdownId],
                      judgedCorrect |-> isShowdownCorrect(validatedSpec, showdownId,
                                                          draftAnswers),
                      result |-> result,
                      emitted |-> <<"answer.submitted", "evaluate.requested">>]
        /\ UNCHANGED <<askedQuestions, evaluations, timers, rendererVars, storeVars, scoreVars>>

NextShowdown ==
    \/ HandleOptionChange
    \/ HandleReasonToggle
    \/ HandleResetAll
    \/ HandleSubmitAll

SpecShowdown == ShowdownInit /\ [][NextShowdown]_vars

----------------------------------------------------------------------------
(* SpecStore: every operation of the store, called directly (part_002)     *)

\* the game the session operations are called for
StoreGame == "g1"

\* an answer and a result to store
StoreAnswer == Envelope("mcq", [optionId |-> "B"])
StoreResult ==
    [gameId |-> StoreGame, correct |-> TRUE, score |-> RatInt(1),
     feedback |-> "Correct!", omiEvidence |-> <<>>]

\* the time limits initTimer is called with: none, negative, and positive ones
StoreTimeLimits == -1..MaxTimeLimit

\* evidence lists of SpecStore: one entry, or one entry for each of two OMIs
StoreEvidenceLists(t) ==
    {<<Evidence("a", FALSE, RatInt(0), t)>>,
     <<Evidence("a", TRUE, RatInt(1), t)>>,
     <<Evidence("b", FALSE, Rat(1, 2), t)>>,
     <<Evidence("a", TRUE, RatInt(1), t), Evidence("b", FALSE, RatInt(0), t)>>}

\* markQuestionAsked: the new askedQuestions
markQuestionAsked(state, specPath, questionId, t) ==
    Append(state, [specPath |-> specPath, questionId |-> questionId, timestamp |-> t])

\* getSubmittedQuestionsForGame
getSubmittedQuestionsForGame(state, gameId) ==
    SelectSeq(state, LAMBDA q : q.gameId = gameId)

StoreSpecInit ==
    /\ StoreInit
    /\ RendererInit
    /\ validatedSpec = Null /\ envelope = Null /\ evaluation = Null

SetAnswer ==
    /\ answers' = setAnswer(answers, StoreGame, StoreAnswer)
    /\ lastOp' = [op |-> "setAnswer", gameId |-> StoreGame]
    /\ UNCHANGED <<evaluations, timers, storeVars, now, submittedQuestions, askedQuestions,
                   draftAnswers, rendererVars, scoreVars>>

SetEvaluation ==
    /\ evaluations' = setEvaluation(evaluations, StoreGame, StoreResult)
    /\ lastOp' = [op |-> "setEvaluation", gameId |-> StoreGame]
    /\ UNCHANGED <<answers, timers, storeVars, now, submittedQuestions, askedQuestions,
                   draftAnswers, rendererVars, scoreVars>>

ClearAnswer ==
    /\ answers' = clearAnswer(answers, StoreGame)
    /\ lastOp' = [op |-> "clearAnswer", gameId |-> StoreGame]
    /\ UNCHANGED <<evaluations, timers, storeVars, now, submittedQuestions, askedQuestions,
                   draftAnswers, rendererVars, scoreVars>>

ClearEvaluation ==
    /\ evaluations' = clearEvaluation(evaluations, StoreGame)
    /\ lastOp' = [op |-> "clearEvaluation", gameId |-> StoreGame]
    /\ UNCHANGED <<answers, timers, storeVars, now, submittedQuestions, askedQuestions,
                   draftAnswers, rendererVars, scoreVars>>

InitTimer ==
    \E timeLimitSec \in StoreTimeLimits :
        /\ timers' = initTimer(timers, StoreGame, timeLimitSec)
        /\ lastOp' = [op |-> "initTimer", gameId |-> StoreGame,
                      timeLimitSec |-> timeLimitSec]
        /\ UNCHANGED <<answers, evaluations, storeVars, now, submittedQuestions,
                       askedQuestions, draftAnswers, rendererVars, scoreVars>>

\* tickTimer; the value it returns is kept in lastOp ("undefined" when there is none)
TickTimer ==
    /\ timers' = tickTimer(timers, StoreGame)
    /\ lastOp' = [op |-> "tickTimer", gameId |-> StoreGame,
                  returned |-> IF tickReturnsUndefined(timers, StoreGame)
                                   THEN "undefined"
                                   ELSE ToString(tickNext(timers, StoreGame))]
    /\ UNCHANGED <<answers, evaluations, storeVars, now, submittedQuestions, askedQuestions,
                   draftAnswers, rendererVars, scoreVars>>

StopTimer ==
    /\ timers' = stopTimer(timers, StoreGame)
    /\ lastOp' = [op |-> "stopTimer", gameId |-> StoreGame]
    /\ UNCHANGED <<answers, evaluations, storeVars, now, submittedQuestions, askedQuestions,
                   draftAnswers, rendererVars, scoreVars>>

ResetGame ==
    /\ answers' = resetGameAnswers(answers, StoreGame)
    /\ evaluations' = resetGameEvaluations(evaluations, StoreGame)
    /\ timers' = resetGameTimers(timers, StoreGame)
    /\ lastOp' = [op |-> "resetGame", gameId |-> StoreGame]
    /\ UNCHANGED <<storeVars, now, submittedQuestions, askedQuestions, draftAnswers,
                   rendererVars, scoreVars>>

StoreRecordOMIEvidence ==
    \E evidenceList \in StoreEvidenceLists(now + 1) :
        /\ now < MaxStoreStamps
        /\ omiProgress' = recordOMIEvidence(omiProgress, evidenceList)
        /\ evidenceLog' = LogAppend(evidenceLog, evidenceList)
        /\ now' = now + 1
        /\ lastOp' = [op |-> "recordOMIEvidence", evidenceList |-> evidenceList]
        /\ UNCHANGED <<sessionVars, submittedQuestions, askedQuestions, draftAnswers,
                       rendererVars, scoreVars>>

MarkQuestionAsked ==
    /\ now < MaxStoreStamps
    /\ askedQuestions' = markQuestionAsked(askedQuestions, "p1", "q1", now + 1)
    /\ now' = now + 1
    /\ lastOp' = [op |-> "markQuestionAsked"]
    /\ UNCHANGED <<sessionVars, storeVars, submittedQuestions, draftAnswers, rendererVars,
                   scoreVars>>

ResetAskedQuestions ==
    /\ askedQuestions' = <<>>
    /\ lastOp' = [op |-> "resetAskedQuestions"]
    /\ UNCHANGED <<sessionVars, storeVars, now, submittedQuestions, draftAnswers,
                   rendererVars, scoreVars>>

MarkQuestionSubmitted ==
    \E correct \in BOOLEAN :
        /\ now < MaxStoreStamps
        /\ submittedQuestions' =
               markQuestionSubmitted(submittedQuestions, StoreGame, "q1", correct, now + 1)
        /\ now' = now + 1
        /\ lastOp' = [op |-> "markQuestionSubmitted", gameId |-> StoreGame,
                      questionId |-> "q1", correct |-> correct]
        /\ UNCHANGED <<sessionVars, storeVars, askedQuestions, draftAnswers, rendererVars,
                       scoreVars>>

\* resetAllProgress: every map and list of the store emptied (the log starts over)
ResetAllProgress ==
    /\ omiProgress' = <<>>
    /\ askedQuestions' = <<>>
    /\ submittedQuestions' = <<>>
    /\ answers' = <<>>
    /\ evaluations' = <<>>
    /\ timers' = <<>>
    /\ evidenceLog' = [o \in OmiIds |-> <<>>]
    /\ lastOp' = [op |-> "resetAllProgress"]
    /\ UNCHANGED <<now, draftAnswers, rendererVars, scoreVars>>

NextStore ==
    \/ SetAnswer
    \/ SetEvaluation
    \/ ClearAnswer
    \/ ClearEvaluation
    \/ InitTimer
    \/ TickTimer
    \/ StopTimer
    \/ ResetGame
    \/ StoreRecordOMIEvidence
    \/ MarkQuestionAsked
    \/ ResetAskedQuestions
    \/ MarkQuestionSubmitted
    \/ ResetAllProgress

SpecStore == StoreSpecInit /\ [][NextStore]_vars

----------------------------------------------------------------------------
(* SpecMarks: markQuestionSubmitted over two games and two questions       *)

MarkGames == {"g1", "g2"}
MarkQuestions == {"q1", "q2"}

MarkSubmitted ==
    \E gameId \in MarkGames, questionId \in MarkQuestions, correct \in BOOLEAN :
        /\ now < MaxSubmittedMarks
        /\ submittedQuestions' =
               markQuestionSubmitted(submittedQuestions, gameId, questionId, correct,
                                     now + 1)
        /\ now' = now + 1
        /\ lastOp' = [op |-> "markQuestionSubmitted", gameId |-> gameId,
                      questionId |-> questionId, correct |-> correct]
        /\ UNCHANGED <<sessionVars, storeVars, askedQuestions, draftAnswers, rendererVars,
                       scoreVars>>

NextMarks == MarkSubmitted \/ ResetAllProgress

SpecMarks == StoreSpecInit /\ [][NextMarks]_vars


----------------------------------------------------------------------------
(* Claims about the mastery tracker *)

\* capacity of evidenceHistory stated by the specification ("Keep last 10")
HistoryCapacity == 10

Min(x, y) == IF x <= y THEN x ELSE y

\* the tier rule as the specification words it, over integers:
\* successRate = s/t, averageAccuracy = an/ad
TierOf(s, t, an, ad) ==
    IF 10 * s >= 9 * t /\ 10 * an >= 9 * ad /\ t >= 3 THEN "mastered"
    ELSE IF 10 * s >= 7 * t /\ 10 * an >= 7 * ad /\ t >= 2 THEN "proficient"
    ELSE IF 10 * s >= 4 * t \/ t >= 1 THEN "emerging"
    ELSE "not-yet"

IsSuccess(e) == e.demonstrated /\ e.accuracy = RatInt(1)

\* C1: after every recordOMIEvidence call each stored masteryLevel is the tier
\* recomputed from the record's lifetime aggregates, highest tier first; an OMI is
\* mastered iff it has >= 3 attempts with success rate >= 0.9 and average accuracy
\* >= 0.9; three demonstrated accuracy-1 entries on a fresh OMI give "mastered".
C1_MasteryRecomputed ==
    \A o \in DOMAIN omiProgress :
        LET p == omiProgress[o]
            s == p.successfulAttempts
            t == p.totalAttempts
            an == p.averageAccuracy[1]
            ad == p.averageAccuracy[2]
        IN  /\ p.masteryLevel = TierOf(s, t, an, ad)
            /\ (p.masteryLevel = "mastered")
                   <=> (t >= 3 /\ 10 * s >= 9 * t /\ 10 * an >= 9 * ad)
            /\ (Len(evidenceLog[o]) = 3 /\ \A i \in 1..3 : IsSuccess(evidenceLog[o][i]))
                   => getOMIMastery(omiProgress, o) = "mastered"

\* a mastered record that carries a failed attempt: 9 successes out of 10
C1_Witness ==
    /\ lastOp.op = "recordOMIEvidence"
    /\ "a" \in DOMAIN omiProgress
    /\ omiProgress["a"].masteryLevel = "mastered"
    /\ omiProgress["a"].totalAttempts = 10
    /\ omiProgress["a"].successfulAttempts = 9

FailingEntry(e) == ~e.demonstrated /\ e.accuracy = RatInt(0)

\* C2: mastery is not monotonic: after exactly three demonstrated accuracy-1
\* entries (level "mastered"), one entry with demonstrated=false and accuracy=0
\* gives successRate = averageAccuracy = 3/4 and the level "proficient".
C2_MasteryRegresses ==
    [][\A o \in OmiIds :
        ( /\ lastOp'.op = "recordOMIEvidence"
          /\ Len(lastOp'.evidenceList) = 1
          /\ lastOp'.evidenceList[1].omiId = o
          /\ FailingEntry(lastOp'.evidenceList[1])
          /\ Len(evidenceLog[o]) = 3
          /\ \A i \in 1..3 : IsSuccess(evidenceLog[o][i]) )
        => ( /\ getOMIMastery(omiProgress, o) = "mastered"
             /\ getOMIMastery(omiProgress', o) = "proficient"
             /\ omiProgress'[o].averageAccuracy = Rat(3, 4)
             /\ Rat(omiProgress'[o].successfulAttempts, omiProgress'[o].totalAttempts)
                    = Rat(3, 4) )]_vars

\* the level after three successes and one failing entry
C2_Witness ==
    /\ lastOp.op = "recordOMIEvidence"
    /\ Len(evidenceLog["a"]) = 4
    /\ \A i \in 1..3 : IsSuccess(evidenceLog["a"][i])
    /\ FailingEntry(evidenceLog["a"][4])
    /\ getOMIMastery(omiProgress, "a") = "proficient"

\* the prior state of an OMI as recordOMIEvidence sees it: zeros when absent
PriorOf(state, o) ==
    IF o \in DOMAIN state
        THEN state[o]
        ELSE [totalAttempts |-> 0, successfulAttempts |-> 0,
              averageAccuracy |-> RatInt(0), evidenceHistory |-> <<>>]

\* C8: one evidence e for OMI o gives totalAttempts' = totalAttempts + 1,
\* successfulAttempts' = successfulAttempts + (1 if demonstrated), averageAccuracy'
\* * totalAttempts' = averageAccuracy * totalAttempts + e.accuracy, lastAttempt' =
\* e.timestamp; an absent record counts as zero attempts, zero successes, average 0
\* and empty history.
C8_PerEvidenceUpdate ==
    [][(lastOp'.op = "recordOMIEvidence" /\ Len(lastOp'.evidenceList) = 1)
        => LET e == lastOp'.evidenceList[1]
               o == e.omiId
               old == PriorOf(omiProgress, o)
               new == omiProgress'[o]
           IN  /\ o \in DOMAIN omiProgress'
               /\ new.totalAttempts = old.totalAttempts + 1
               /\ new.successfulAttempts =
                      old.successfulAttempts + (IF e.demonstrated THEN 1 ELSE 0)
               /\ RatMul(new.averageAccuracy, RatInt(new.totalAttempts))
                      = RatAdd(RatMul(old.averageAccuracy, RatInt(old.totalAttempts)),
                               e.accuracy)
               /\ new.lastAttempt = e.timestamp
               /\ (o \notin DOMAIN omiProgress => new.evidenceHistory = <<e>>)]_vars

\* a single-entry call on an OMI that already had two attempts and a fractional mean
C8_Witness ==
    /\ lastOp.op = "recordOMIEvidence"
    /\ Len(lastOp.evidenceList) = 1
    /\ lastOp.evidenceList[1].omiId = "b"
    /\ "b" \in DOMAIN omiProgress
    /\ omiProgress["b"].totalAttempts = 3
    /\ omiProgress["b"].averageAccuracy = Rat(2, 3)

\* C9: evidenceHistory.length = min(totalAttempts, 10) and evidenceHistory is the
\* most recently recorded entries of the OMI in arrival order.
C9_HistoryBounded ==
    \A o \in DOMAIN omiProgress :
        LET p == omiProgress[o]
            h == p.evidenceHistory
            log == evidenceLog[o]
        IN  /\ Len(h) = Min(p.totalAttempts, HistoryCapacity)
            /\ Len(h) <= HistoryCapacity
            /\ p.totalAttempts = Len(log)
            /\ h = SubSeq(log, Len(log) - Len(h) + 1, Len(log))

\* more attempts than the history holds: the oldest entry has been dropped
C9_Witness ==
    /\ "a" \in DOMAIN omiProgress
    /\ omiProgress["a"].totalAttempts = HistoryCapacity + 1
    /\ Len(omiProgress["a"].evidenceHistory) = HistoryCapacity
    /\ omiProgress["a"].evidenceHistory[1] = evidenceLog["a"][2]
    /\ evidenceLog["a"][1] # evidenceLog["a"][2]

\* n successive single-entry recordOMIEvidence calls
RECURSIVE SuccessiveCalls(_, _)
SuccessiveCalls(state, evidenceList) ==
    IF evidenceList = <<>> THEN state
    ELSE SuccessiveCalls(recordOMIEvidence(state, <<Head(evidenceList)>>),
                         Tail(evidenceList))

EntriesFor(evidenceList, o) ==
    Cardinality({i \in 1..Len(evidenceList) : evidenceList[i].omiId = o})

\* C10: recordOMIEvidence([e1..en]) leaves the omiProgress of n successive
\* single-entry calls in the same order; every entry of the list counts as one
\* attempt of its OMI.
C10_ListIsSuccessiveCalls ==
    [][lastOp'.op = "recordOMIEvidence"
        => /\ omiProgress' = SuccessiveCalls(omiProgress, lastOp'.evidenceList)
           /\ \A o \in OmiIds :
                EntriesFor(lastOp'.evidenceList, o) > 0
                => /\ o \in DOMAIN omiProgress'
                   /\ omiProgress'[o].totalAttempts =
                          PriorOf(omiProgress, o).totalAttempts
                              + EntriesFor(lastOp'.evidenceList, o)]_vars

\* one call whose list carries two entries for the same OMI
C10_Witness ==
    /\ lastOp.op = "recordOMIEvidence"
    /\ Len(lastOp.evidenceList) = 2
    /\ lastOp.evidenceList[1].omiId = "a"
    /\ lastOp.evidenceList[2].omiId = "a"
    /\ lastOp.evidenceList[1] # lastOp.evidenceList[2]
    /\ omiProgress["a"].totalAttempts = 3

----------------------------------------------------------------------------
(* Claims about the OMI evidence of an evaluation *)

Range(seq) == {seq[i] : i \in 1..Len(seq)}

Evaluated == evaluation # Null
IsSet == validatedSpec.type \in SetTypes
IsActivitySet == validatedSpec.type = "activity-set"

\* the sub-units of the evaluated set spec
SubUnits == IF IsActivitySet THEN validatedSpec.activities ELSE validatedSpec.questions

\* the OMI list the evaluator reads for a sub-unit: omiMapping, and metadata.omis for
\* the questions of a fill-in-the-blanks-set
ReadMapping(u) ==
    IF validatedSpec.type = "fill-in-the-blanks-set"
        THEN metadataOmisOrEmpty(u) ELSE omiMappingOrEmpty(u)

Answered(u) == Has(envelope.payload.answers, u.id)

\* the value submitted for an answered sub-unit (activities wrap it in an object)
Submitted(u) ==
    LET v == envelope.payload.answers[u.id]
    IN  IF ~IsActivitySet THEN v
        ELSE IF u.type = "mcq" THEN v.optionId
        ELSE IF u.type = "ordering" THEN v.order
        ELSE IF u.type = "pair-match" THEN v.matches
        ELSE v.answers

\* the left -> right map a list of pairs stands for, as a set of <<left, right>>: a
\* left key listed more than once keeps the right value listed last
PairSet(pairs) ==
    {<<pairs[i].left, pairs[i].right>> :
        i \in {k \in 1..Len(pairs) :
                  \A j \in (k + 1)..Len(pairs) : pairs[j].left # pairs[k].left}}

\* a sub-unit is correct under the rule of its own type; unanswered is incorrect
UnitIsCorrect(u) ==
    /\ Answered(u)
    /\ IF u.type = "mcq" THEN Submitted(u) = u.correctOptionId
       ELSE IF u.type = "ordering" THEN Submitted(u) = u.items
       ELSE IF u.type = "pair-match" THEN PairSet(Submitted(u)) = PairSet(u.pairs)
       ELSE IF u.type = "fill-in-the-blanks"
           THEN \A s \in Range(u.sentences) :
                    Has(Submitted(u), s.id) /\ Submitted(u)[s.id] = s.blank_answer
       ELSE \A it \in Range(u.items) :
                    Has(Submitted(u), it.id) /\ Submitted(u)[it.id] = it.correctCategoryId

\* the specification's end-to-end scenario: Q1 (a, key B) = B, Q2 (a and b, key C) = D
ScenarioSpec ==
    [id |-> "g1", type |-> "mcq-set",
     questions |-> <<[id |-> "q1", type |-> "mcq", correctOptionId |-> "B",
                      omiMapping |-> <<"a">>],
                     [id |-> "q2", type |-> "mcq", correctOptionId |-> "C",
                      omiMapping |-> <<"a", "b">>]>>]
ScenarioAnswer == Envelope("mcq-set", [answers |-> [q1 |-> "B", q2 |-> "D"]])

\* C4: in every set/composite evaluation the evidence of an OMI id has demonstrated
\* = true iff every sub-unit of the spec whose OMI mapping contains the id, answered
\* or not, was evaluated correct; the end-to-end scenario gives correct=false,
\* score=1/2 and demonstrated=false for both a and b.
C4_DemonstratedAllOrNothing ==
    (Evaluated /\ IsSet) =>
        /\ \A e \in Range(evaluation.omiEvidence) :
              e.demonstrated <=>
                  \A u \in Range(SubUnits) :
                      e.omiId \in Range(ReadMapping(u)) => UnitIsCorrect(u)
        /\ (validatedSpec = ScenarioSpec /\ envelope = ScenarioAnswer) =>
              /\ evaluation.correct = FALSE
              /\ evaluation.score = Rat(1, 2)
              /\ Len(evaluation.omiEvidence) = 2
              /\ \A e \in Range(evaluation.omiEvidence) : ~e.demonstrated

\* C5: the omiEvidence of an evaluation never holds two records with the same omiId,
\* for set types and for atomic games alike.
C5_OneRecordPerOmi ==
    Evaluated =>
        \A i, j \in 1..Len(evaluation.omiEvidence) :
            i # j => evaluation.omiEvidence[i].omiId # evaluation.omiEvidence[j].omiId

RECURSIVE RatSum(_, _)
\* f[1] + ... + f[n]
RatSum(f, n) == IF n = 0 THEN RatInt(0) ELSE RatAdd(RatSum(f, n - 1), f[n])

Occurrences(seq, x) == Cardinality({i \in 1..Len(seq) : seq[i] = x})

\* fraction of a sub-unit's positions / pairs / blanks / items that are right
UnitFraction(u) ==
    IF ~Answered(u) THEN RatInt(0)
    ELSE IF u.type = "mcq" THEN Bit(Submitted(u) = u.correctOptionId)
    ELSE IF u.type = "ordering"
        THEN Rat(Cardinality({i \in 1..Len(u.items) :
                                 i <= Len(Submitted(u)) /\ Submitted(u)[i] = u.items[i]}),
                 Len(u.items))
    ELSE IF u.type = "pair-match"
        THEN Rat(Cardinality(PairSet(u.pairs) \cap PairSet(Submitted(u))),
                 Cardinality(PairSet(u.pairs)))
    ELSE IF u.type = "fill-in-the-blanks"
        THEN Rat(Cardinality({s \in Range(u.sentences) :
                                 Has(Submitted(u), s.id)
                                     /\ Submitted(u)[s.id] = s.blank_answer}),
                 Len(u.sentences))
    ELSE Rat(Cardinality({it \in Range(u.items) :
                             Has(Submitted(u), it.id)
                                 /\ Submitted(u)[it.id] = it.correctCategoryId}),
             Len(u.items))

\* the individual accuracy the claim gives a sub-unit: 0 or 1, fractional for blanks
UnitBinaryAccuracy(u) ==
    IF u.type = "fill-in-the-blanks" THEN UnitFraction(u) ELSE Bit(UnitIsCorrect(u))

\* a sub-unit the evaluator evaluates: every question of a set, the answered activities
IsEvaluated(u) == ~IsActivitySet \/ Answered(u)

C7_EvidenceCoversMappings ==
    (Evaluated /\ IsSet) =>
        {e.omiId : e \in Range(evaluation.omiEvidence)}
            = UNION {Range(omiMappingOrEmpty(u)) : u \in Range(SubUnits)}

----------------------------------------------------------------------------
(* Claims about the renderer's timer *)

\* C3: once a submission of the mounted instance has produced an evaluation, the
\* game's timer is not active again and no interval tick emits 'time.expired',
\* whatever ticks, submissions, answer changes, resets and re-runs of the timer
\* effect follow.
C3_StoppedTimerStaysStopped ==
    (mounted /\ hasSubmitted) =>
        /\ Has(timers, specId) => ~timers[specId].active
        /\ "time.expired" \notin Range(lastOp.emitted)

----------------------------------------------------------------------------
(* Claims about score and correct *)

IsNumber(x) == x[2] > 0

\* the sub-units of the evaluated set spec that are correct under their own rule
CorrectUnits == {i \in 1..Len(SubUnits) : UnitIsCorrect(SubUnits[i])}

\* the sentences of an atomic fill-in-the-blanks spec whose blank holds its word
BlanksFilled ==
    {i \in 1..Len(validatedSpec.sentences) :
        LET sentence == validatedSpec.sentences[i]
        IN  /\ sentence.id \in DOMAIN envelope.payload.answers
            /\ envelope.payload.answers[sentence.id] = sentence.blank_answer}

\* C11: every result has a score in [0, 1] with correct <=> score = 1; MCQ,
\* ordering and pair-match score exactly 0 or 1; fill-in-the-blanks scores correct
\* blanks / sentences; a set scores the fraction of its sub-units that are correct.
C11_ScoreAndCorrectAgree ==
    Evaluated =>
        /\ IsNumber(evaluation.score)
        /\ RatGeq(evaluation.score, RatInt(0))
        /\ RatLeq(evaluation.score, RatInt(1))
        /\ evaluation.correct <=> (evaluation.score = RatInt(1))
        /\ validatedSpec.type \in {"mcq", "ordering", "pair-match"} =>
               evaluation.score \in {RatInt(0), RatInt(1)}
        /\ validatedSpec.type = "fill-in-the-blanks" =>
               evaluation.score = Rat(Cardinality(BlanksFilled),
                                      Len(validatedSpec.sentences))
        /\ IsSet => evaluation.score = Rat(Cardinality(CorrectUnits), Len(SubUnits))

\* a fill-in-the-blanks result with one blank of two right: partial score, not correct
C11_Witness ==
    /\ Evaluated
    /\ validatedSpec.type = "fill-in-the-blanks"
    /\ evaluation.score = Rat(1, 2)
    /\ ~evaluation.correct

\* C12: a set result is correct iff every sub-question of the spec is correct under
\* its own rule, and its score is correct sub-questions / sub-questions of the spec
\* (a classification question is correct iff every item has its correctCategoryId).
C12_SetAggregation ==
    (Evaluated /\ IsSet) =>
        /\ evaluation.correct <=> (\A i \in 1..Len(SubUnits) : UnitIsCorrect(SubUnits[i]))
        /\ evaluation.score = Rat(Cardinality(CorrectUnits), Len(SubUnits))

\* a classification-set with one question fully classified and one with a wrong item
C12_Witness ==
    /\ Evaluated
    /\ validatedSpec.type = "classification-set"
    /\ Len(SubUnits) = 2
    /\ Cardinality(CorrectUnits) = 1
    /\ \E i \in 1..2 : Answered(SubUnits[i]) /\ ~UnitIsCorrect(SubUnits[i])
    /\ evaluation.score = Rat(1, 2)
    /\ ~evaluation.correct

\* the sub-units of the evaluated set spec with no entry in the submission's answers
UnansweredUnits == {i \in 1..Len(SubUnits) : ~Answered(SubUnits[i])}

\* the answered sub-units whose answer is right
AnsweredCorrectly == {i \in 1..Len(SubUnits) \ UnansweredUnits : UnitIsCorrect(SubUnits[i])}

\* C13: in every set type a sub-question without an entry in the answers is an
\* incorrect sub-question: a result is returned, the result is not correct, and the
\* score counts only answered sub-questions that are right, over all sub-questions.
C13_MissingAnswerIsIncorrect ==
    (lastOp.op = "scoreGame" /\ IsSet /\ UnansweredUnits # {}) =>
        /\ Evaluated
        /\ ~evaluation.correct
        /\ IsNumber(evaluation.score)
        /\ evaluation.score = Rat(Cardinality(AnsweredCorrectly), Len(SubUnits))
        /\ RatLeq(evaluation.score,
                  Rat(Len(SubUnits) - Cardinality(UnansweredUnits), Len(SubUnits)))

\* an activity-set with one activity answered right and the other unanswered
C13_Witness ==
    /\ Evaluated
    /\ IsActivitySet
    /\ Len(SubUnits) = 2
    /\ Cardinality(UnansweredUnits) = 1
    /\ Cardinality(AnsweredCorrectly) = 1
    /\ evaluation.score = Rat(1, 2)

----------------------------------------------------------------------------
(* Claims about absent results *)

\* C14: scoreGame returns null and changes nothing when answer.type differs from
\* spec.type, and handleSubmit, given no result, stores no evaluation, records no
\* OMI evidence, does not stop the timer and emits no 'game.completed'.
C14_AbsentResultGuarded ==
    [][ /\ (lastOp'.op = "scoreGame" /\ validatedSpec.type # envelope.type) =>
               /\ evaluation' = Null
               /\ UNCHANGED <<storeVars, sessionVars, rendererVars>>
        /\ (lastOp'.op = "handleSubmit" /\ lastOp'.result = Null) =>
               /\ evaluations' = evaluations
               /\ UNCHANGED <<omiProgress, evidenceLog, timers>>
               /\ "game.completed" \notin Range(lastOp'.emitted)
               /\ "omi.evidence" \notin Range(lastOp'.emitted) ]_vars

\* scoreGame was called with an answer of another type while a game was mounted
C14_Witness ==
    /\ lastOp.op = "scoreGame"
    /\ validatedSpec.type # envelope.type
    /\ evaluation = Null
    /\ mounted

\* handleSubmit ran and scoreGame gave it no result
C14_WitnessSubmit ==
    /\ lastOp.op = "handleSubmit"
    /\ lastOp.result = Null
    /\ mounted
    /\ ~Has(evaluations, specId)

\* the showdown rule: the chosen option is the designated one and the selected
\* reason ids are, as a set, exactly the reasons flagged correct
ShowdownRule(showdown, selection) ==
    /\ selection.optionId = showdown.correctOptionId
    /\ Range(selection.reasonIds)
           = {reason.id : reason \in {x \in Range(showdown.reasonOptions) : x.correct}}

\* the showdowns of the evaluated spec that the submission gets right
CorrectShowdowns ==
    {i \in 1..Len(validatedSpec.showdowns) :
        LET showdown == validatedSpec.showdowns[i]
        IN  /\ showdown.id \in DOMAIN envelope.payload.answers
            /\ ShowdownRule(showdown, envelope.payload.answers[showdown.id])}

\* C15: scoreGame on a showdown-set spec with a showdown-set answer gives a result
\* (not null) that is correct iff every showdown is correct, with score = correct
\* showdowns / showdowns.
C15_ShowdownSetEvaluated ==
    ( /\ lastOp.op = "scoreGame"
      /\ validatedSpec.type = "showdown-set"
      /\ envelope.type = "showdown-set" ) =>
        /\ evaluation # Null
        /\ evaluation.correct <=>
               (Cardinality(CorrectShowdowns) = Len(validatedSpec.showdowns))
        /\ evaluation.score
               = Rat(Cardinality(CorrectShowdowns), Len(validatedSpec.showdowns))

----------------------------------------------------------------------------
(* Claims about the showdown judgement *)

\* C16: a showdown is judged correct iff the chosen option is the showdown's
\* correctOptionId and the selected reason ids are, as a set, exactly the reasons
\* flagged correct, for every selection list, also one that repeats a reason id.
C16_ShowdownExactReasons ==
    \A id \in DOMAIN draftAnswers :
        isShowdownCorrect(validatedSpec, id, draftAnswers)
            <=> ShowdownRule(showdownById(validatedSpec, id), draftAnswers[id])

----------------------------------------------------------------------------
(* Claims about atomic pair-match and ordering *)

IsPairMatch == validatedSpec.type = "pair-match" /\ envelope.type = "pair-match"

\* the canonical and the submitted left -> right maps
CanonicalMap == PairSet(validatedSpec.pairs)
SubmittedMap == PairSet(envelope.payload.matches)

\* C17 (as amended): a pair-match result is correct iff the submitted map has the
\* size of the canonical map and holds every canonical pair; a submission whose map
\* has fewer or more keys than the canonical map gives correct=false, score=0.
C17_PairMatchByMaps ==
    (lastOp.op = "scoreGame" /\ IsPairMatch) =>
        /\ Evaluated
        /\ evaluation.correct <=>
               /\ Cardinality(SubmittedMap) = Cardinality(CanonicalMap)
               /\ CanonicalMap \subseteq SubmittedMap
        /\ Cardinality(SubmittedMap) # Cardinality(CanonicalMap) =>
               ~evaluation.correct /\ evaluation.score = RatInt(0)

\* a submission holding only the first of the two canonical pairs
C17_Witness ==
    /\ Evaluated /\ IsPairMatch
    /\ Cardinality(SubmittedMap) < Cardinality(CanonicalMap)
    /\ SubmittedMap \subseteq CanonicalMap
    /\ ~evaluation.correct
    /\ evaluation.score = RatInt(0)

\* C17: a pair-match result is correct iff the submitted map has the size of the
\* canonical map and holds every canonical pair; a submission with fewer or more
\* matches than there are canonical pairs gives correct=false, score=0.
C17_PairMatchByMatchCount ==
    (lastOp.op = "scoreGame" /\ IsPairMatch) =>
        /\ Evaluated
        /\ evaluation.correct <=>
               /\ Cardinality(SubmittedMap) = Cardinality(CanonicalMap)
               /\ CanonicalMap \subseteq SubmittedMap
        /\ Len(envelope.payload.matches) # Len(validatedSpec.pairs) =>
               ~evaluation.correct /\ evaluation.score = RatInt(0)

\* C18: the accuracy of every OMI evidence record of a pair-match result is the
\* number of canonical pairs the submission maps alike over the number of
\* canonical pairs, whatever the number of submitted matches.
C18_PairMatchAccuracy ==
    (Evaluated /\ IsPairMatch) =>
        \A e \in Range(evaluation.omiEvidence) :
            e.accuracy = Rat(Cardinality(CanonicalMap \cap SubmittedMap),
                             Cardinality(CanonicalMap))

IsOrdering == validatedSpec.type = "ordering" /\ envelope.type = "ordering"

\* the indices of the canonical sequence at which the submission holds the same item
RightPositions ==
    {i \in 1..Len(validatedSpec.items) :
        i <= Len(envelope.payload.order)
            /\ envelope.payload.order[i] = validatedSpec.items[i]}

\* C19 (as amended): the accuracy of every OMI evidence record of an ordering result
\* is the fraction of canonical positions holding the right item, whatever the binary
\* score; it equals the score exactly when the order is fully correct (both 1) or no
\* position is right (both 0).
C19_PositionalAccuracy ==
    (Evaluated /\ IsOrdering) =>
        \A e \in Range(evaluation.omiEvidence) :
            /\ e.accuracy = Rat(Cardinality(RightPositions), Len(validatedSpec.items))
            /\ (e.accuracy = evaluation.score)
                   <=> (evaluation.correct \/ RightPositions = {})

\* an order with one of three positions right: accuracy 1/3 beside score 0
C19_Witness ==
    /\ Evaluated /\ IsOrdering
    /\ Len(evaluation.omiEvidence) > 0
    /\ evaluation.omiEvidence[1].accuracy = Rat(1, 3)
    /\ evaluation.score = RatInt(0)

\* C19: the positional accuracy of every OMI evidence record of an ordering result
\* is the fraction of positions holding the right item and never equals the score.
C19_AccuracyNeverScore ==
    (Evaluated /\ IsOrdering) =>
        \A e \in Range(evaluation.omiEvidence) :
            /\ e.accuracy = Rat(Cardinality(RightPositions), Len(validatedSpec.items))
            /\ e.accuracy # evaluation.score

\* C20: a set spec with an empty sub-question list evaluates to score = 0 (a
\* number), for every set type.
C20_EmptySetScoresZero ==
    (Evaluated /\ IsSet /\ Len(SubUnits) = 0) =>
        /\ IsNumber(evaluation.score)
        /\ evaluation.score = RatInt(0)

(***************************************************************************)
(* Claims about delegation to the atomic evaluators                        *)
(***************************************************************************)
DelegatingSets == {"activity-set", "ordering-set", "pair-match-set"}

\* the payload an atomic evaluator gets for a sub-unit: the submitted value, or the
\* empty value the set scorers put in place of a missing one
AtomicPayload(u) ==
    IF u.type = "mcq" THEN [optionId |-> Submitted(u)]
    ELSE IF u.type = "ordering"
        THEN [order |-> IF Answered(u) THEN Submitted(u) ELSE <<>>]
    ELSE IF u.type = "pair-match"
        THEN [matches |-> IF Answered(u) THEN Submitted(u) ELSE <<>>]
    ELSE [answers |-> Submitted(u)]

\* what the atomic evaluator of the sub-unit's own type returns for the same answer
\* key and the same answer; one OMI is attached so that the accuracy shows
AtomicResult(u) ==
    scoreGame(Ext(u, "metadata", [omis |-> <<"a">>]),
              Envelope(u.type, AtomicPayload(u)), now)

AtomicCorrect(u) == AtomicResult(u).correct
AtomicAccuracy(u) == AtomicResult(u).omiEvidence[1].accuracy

\* C21: in an activity-set, ordering-set or pair-match-set every evaluated sub-unit
\* counts as correct exactly when the atomic evaluator of its type says so, and the
\* accuracy it contributes to the evidence of its OMIs is the accuracy the atomic
\* evaluator produces, wrong-length orders and pair submissions of another size
\* included.
C21_SubUnitsScoredAtomically ==
    (Evaluated /\ validatedSpec.type \in DelegatingSets) =>
        LET n == Len(SubUnits)
        IN  /\ evaluation.score =
                  Rat(Cardinality({i \in 1..n : IsEvaluated(SubUnits[i])
                                                    /\ AtomicCorrect(SubUnits[i])}), n)
            /\ \A e \in Range(evaluation.omiEvidence) :
                  LET weight == [i \in 1..n |->
                                    IF IsEvaluated(SubUnits[i])
                                        THEN Occurrences(ReadMapping(SubUnits[i]), e.omiId)
                                        ELSE 0]
                      total == RatSum([i \in 1..n |-> RatInt(weight[i])], n)
                      sum == RatSum([i \in 1..n |->
                                      IF weight[i] = 0 THEN RatInt(0)
                                      ELSE RatMul(RatInt(weight[i]),
                                                  AtomicAccuracy(SubUnits[i]))], n)
                  IN  e.accuracy = RatDiv(sum, total)

(***************************************************************************)
(* Claims about the atomic MCQ and ordering rules                          *)
(***************************************************************************)
IsMcq == validatedSpec.type = "mcq" /\ envelope.type = "mcq"

\* C22: an MCQ evaluation is correct iff answer.optionId equals spec.correctOptionId;
\* an ordering evaluation is correct iff the submitted order has the length of
\* spec.items and equals it at every index; in both score is 1 when correct, else 0.
C22_McqAndOrderingRules ==
    Evaluated =>
        /\ IsMcq =>
              /\ evaluation.correct
                    <=> (envelope.payload.optionId = validatedSpec.correctOptionId)
              /\ evaluation.score = IF evaluation.correct THEN RatInt(1) ELSE RatInt(0)
        /\ IsOrdering =>
              /\ evaluation.correct
                    <=> /\ Len(envelope.payload.order) = Len(validatedSpec.items)
                        /\ \A i \in 1..Len(validatedSpec.items) :
                              envelope.payload.order[i] = validatedSpec.items[i]
              /\ evaluation.score = IF evaluation.correct THEN RatInt(1) ELSE RatInt(0)

\* an order that holds every canonical item in place and one item more: incorrect
C22_Witness ==
    /\ Evaluated /\ IsOrdering
    /\ Len(envelope.payload.order) > Len(validatedSpec.items)
    /\ RightPositions = 1..Len(validatedSpec.items)
    /\ ~evaluation.correct
    /\ evaluation.score = RatInt(0)

(***************************************************************************)
(* Claims about the store's lists and maps                                 *)
(***************************************************************************)
\* the positions of the list holding a record of the key
PositionsOf(list, gameId, questionId) ==
    {i \in 1..Len(list) : list[i].gameId = gameId /\ list[i].questionId = questionId}

\* C23: every markQuestionSubmitted call is an upsert by (gameId, questionId): an
\* existing key has its record replaced at its position by the new correct flag and
\* timestamp with every other record unchanged, a new key is appended; afterwards the
\* list holds at most one record per key, and getSubmittedQuestionsForGame(g) is the
\* list of exactly the records whose gameId is g.
C23_SubmittedUpsert ==
    [][lastOp'.op = "markQuestionSubmitted" =>
          LET submission == [gameId |-> lastOp'.gameId, questionId |-> lastOp'.questionId,
                             correct |-> lastOp'.correct, timestamp |-> now']
              held == PositionsOf(submittedQuestions, submission.gameId,
                                  submission.questionId)
          IN  /\ held # {} =>
                    /\ Len(submittedQuestions') = Len(submittedQuestions)
                    /\ \A i \in 1..Len(submittedQuestions) :
                          submittedQuestions'[i] =
                              IF i \in held THEN submission ELSE submittedQuestions[i]
              /\ held = {} => submittedQuestions' = Append(submittedQuestions, submission)
              /\ \A g \in MarkGames, q \in MarkQuestions :
                    Cardinality(PositionsOf(submittedQuestions', g, q)) <= 1
              /\ \A g \in MarkGames :
                    LET got == getSubmittedQuestionsForGame(submittedQuestions', g)
                    IN  /\ \A i \in 1..Len(got) : got[i].gameId = g
                        /\ Range(got) = {r \in Range(submittedQuestions') : r.gameId = g}
                        /\ Len(got) = Cardinality(Range(got))]_vars

\* a resubmission replaced the first of two records: it is the younger one now
C23_Witness ==
    /\ lastOp.op = "markQuestionSubmitted"
    /\ Len(submittedQuestions) = 2
    /\ submittedQuestions[1].timestamp > submittedQuestions[2].timestamp
    /\ submittedQuestions[1].gameId = lastOp.gameId
    /\ submittedQuestions[1].questionId = lastOp.questionId

\* the OMI ids occurring in an evidence list
ListedOmis(evidenceList) == {evidenceList[i].omiId : i \in 1..Len(evidenceList)}

\* C24: omiProgress changes only in recordOMIEvidence and resetAllProgress;
\* recordOMIEvidence(list) holds a record for every listed OMI afterwards, removes
\* none and leaves the records of unlisted OMIs as they were; resetAllProgress
\* empties omiProgress, askedQuestions and submittedQuestions together; every other
\* store operation leaves omiProgress unchanged.
C24_ProgressOwnership ==
    [][/\ omiProgress' # omiProgress
              => lastOp'.op \in {"recordOMIEvidence", "resetAllProgress"}
       /\ lastOp'.op = "recordOMIEvidence" =>
              /\ DOMAIN omiProgress' = DOMAIN omiProgress
                                           \cup ListedOmis(lastOp'.evidenceList)
              /\ \A o \in DOMAIN omiProgress \ ListedOmis(lastOp'.evidenceList) :
                    omiProgress'[o] = omiProgress[o]
       /\ lastOp'.op = "resetAllProgress" =>
              /\ omiProgress' = <<>>
              /\ askedQuestions' = <<>>
              /\ submittedQuestions' = <<>>
       /\ ~(DOMAIN omiProgress \subseteq DOMAIN omiProgress')
              => lastOp'.op = "resetAllProgress"]_vars

\* a call listing only OMI b, made while OMI a has a record
C24_Witness ==
    /\ lastOp.op = "recordOMIEvidence"
    /\ ListedOmis(lastOp.evidenceList) = {"b"}
    /\ DOMAIN omiProgress = {"a", "b"}

(***************************************************************************)
(* Claims about the stored OMIProgress records                             *)
(***************************************************************************)
\* the mean of the accuracies of a nonempty list of evidence entries
MeanAccuracy(entries) ==
    RatDiv(RatSum([i \in 1..Len(entries) |-> entries[i].accuracy], Len(entries)),
           RatInt(Len(entries)))

\* C25: every stored record has totalAttempts >= 1 and 0 <= successfulAttempts <=
\* totalAttempts; with every recorded accuracy in [0, 1], averageAccuracy lies in
\* [0, 1] and is the mean of all accuracies ever recorded for the OMI.
C25_LifetimeMean ==
    \A o \in DOMAIN omiProgress :
        LET p == omiProgress[o]
            log == evidenceLog[o]
        IN  /\ p.totalAttempts >= 1
            /\ p.totalAttempts = Len(log)
            /\ 0 <= p.successfulAttempts
            /\ p.successfulAttempts <= p.totalAttempts
            /\ (\A i \in 1..Len(log) :
                    RatGeq(log[i].accuracy, RatInt(0)) /\ RatLeq(log[i].accuracy, RatInt(1)))
                   => /\ RatGeq(p.averageAccuracy, RatInt(0))
                      /\ RatLeq(p.averageAccuracy, RatInt(1))
                      /\ p.averageAccuracy = MeanAccuracy(log)

\* more attempts than the history retains, and a lifetime mean that is not the mean
\* of the retained entries
C25_Witness ==
    /\ "a" \in DOMAIN omiProgress
    /\ omiProgress["a"].totalAttempts > HistoryCapacity
    /\ Len(omiProgress["a"].evidenceHistory) = HistoryCapacity
    /\ omiProgress["a"].averageAccuracy # MeanAccuracy(omiProgress["a"].evidenceHistory)
    /\ omiProgress["a"].successfulAttempts \in 1..(omiProgress["a"].totalAttempts - 1)

(***************************************************************************)
(* Claims about unmounting                                                 *)
(***************************************************************************)
\* a map with the entry of one key left out of the comparison
Others(map, key) == [k \in DOMAIN map \ {key} |-> map[k]]

\* C26: unmounting a game instance removes the game's timer, answer and evaluation
\* entries from the store and leaves no live interval (no later tick, no later
\* 'time.expired'), changes neither omiProgress nor askedQuestions nor
\* submittedQuestions, and changes no other game's ephemeral entry.
C26_UnmountDiscards ==
    [][/\ lastOp'.op = "unmount" =>
              /\ ~Has(timers', specId)
              /\ ~Has(answers', specId)
              /\ ~Has(evaluations', specId)
              /\ omiProgress' = omiProgress
              /\ askedQuestions' = askedQuestions
              /\ submittedQuestions' = submittedQuestions
              /\ Others(timers', specId) = Others(timers, specId)
              /\ Others(answers', specId) = Others(answers, specId)
              /\ Others(evaluations', specId) = Others(evaluations, specId)
       /\ ~mounted' =>
              /\ intervals' = {}
              /\ lastOp'.op \notin {"tick"}
              /\ ~Includes(lastOp'.emitted, "time.expired")]_vars

\* an unmount of a timed game whose timer, answer and evaluation were in the store,
\* beside the entries of another game and earlier progress
C26_Witness ==
    /\ lastOp.op = "unmount"
    /\ ~mounted
    /\ timeLimit > 0
    /\ Has(timers, OtherGame) /\ Has(answers, OtherGame) /\ Has(evaluations, OtherGame)
    /\ "a" \in DOMAIN omiProgress
    /\ submittedQuestions # <<>> /\ askedQuestions # <<>>

(***************************************************************************)
(* Claims about the purity of the evaluator                                *)
(***************************************************************************)
\* two results equal in everything but the timestamps of their evidence
SameButTimestamps(r1, r2) ==
    /\ r1.gameId = r2.gameId
    /\ r1.correct = r2.correct
    /\ r1.score = r2.score
    /\ r1.feedback = r2.feedback
    /\ Len(r1.omiEvidence) = Len(r2.omiEvidence)
    /\ \A i \in 1..Len(r1.omiEvidence) :
          /\ r1.omiEvidence[i].omiId = r2.omiEvidence[i].omiId
          /\ r1.omiEvidence[i].demonstrated = r2.omiEvidence[i].demonstrated
          /\ r1.omiEvidence[i].accuracy = r2.omiEvidence[i].accuracy

C28_NoDoubleSubmit ==
    [][Has(evaluations, specId) =>
          /\ lastOp'.op # "handleSubmit"
          /\ Has(evaluations', specId) => evaluations'[specId] = evaluations[specId]
          /\ omiProgress' = omiProgress
          /\ evidenceLog' = evidenceLog
          /\ ~Includes(lastOp'.emitted, "game.completed")]_vars

\* a second submission of the instance, processed after the first evaluation was cleared
C28_Witness ==
    /\ mounted
    /\ lastOp.op = "handleSubmit"
    /\ Has(evaluations, specId)
    /\ Includes(lastOp.emitted, "game.completed")
    /\ now = 2
    /\ Len(evidenceLog["a"]) = 2

(***************************************************************************)
(* Claims about the lowest mastery tier                                    *)
(***************************************************************************)
\* C29: getOMIMastery returns 'not-yet' exactly for the OMIs without a progress
\* record, that is the OMIs no evidence has been recorded for since the store was
\* last emptied; once an OMI is past 'not-yet' only resetAllProgress brings it back.
C29_NotYetOnlyWithoutRecord ==
    [][\A o \in OmiIds :
          /\ (getOMIMastery(omiProgress', o) = "not-yet") <=> (o \notin DOMAIN omiProgress')
          /\ (o \in DOMAIN omiProgress') <=> (evidenceLog'[o] # <<>>)
          /\ (getOMIMastery(omiProgress, o) # "not-yet"
                  /\ getOMIMastery(omiProgress', o) = "not-yet")
                 => lastOp'.op = "resetAllProgress"]_vars

\* an OMI whose two recorded entries both failed: 'emerging', not 'not-yet'
C29_Witness ==
    /\ "a" \in DOMAIN omiProgress
    /\ omiProgress["a"].totalAttempts = 2
    /\ omiProgress["a"].successfulAttempts = 0
    /\ getOMIMastery(omiProgress, "a") = "emerging"

(***************************************************************************)
(* Claims about the timers of the store                                    *)
(***************************************************************************)
\* C30: every timer's remainingSec is an integer >= 0 and an active timer has
\* remainingSec >= 1; only initTimer creates a timer, raises its remainingSec or makes
\* it active; tickTimer on an absent or inactive timer returns undefined and changes
\* nothing, and on an active one it takes one second off; initTimer with
\* timeLimitSec <= 0 changes nothing; tickTimer returns 0 only for an active timer,
\* which is inactive with remainingSec 0 from then on until the next initTimer.
C30_TimerDiscipline ==
    [][LET g == StoreGame
           had == Has(timers, g)
           has == Has(timers', g)
       IN  /\ \A id \in DOMAIN timers' :
                 /\ timers'[id].remainingSec \in Nat
                 /\ timers'[id].active => timers'[id].remainingSec >= 1
           /\ (~had /\ has) => lastOp'.op = "initTimer"
           /\ (had /\ has /\ timers'[g].remainingSec > timers[g].remainingSec)
                  => lastOp'.op = "initTimer"
           /\ (had /\ has /\ ~timers[g].active /\ timers'[g].active)
                  => lastOp'.op = "initTimer"
           /\ (lastOp'.op = "tickTimer" /\ (~had \/ ~timers[g].active))
                  => lastOp'.returned = "undefined" /\ timers' = timers
           /\ (lastOp'.op = "tickTimer" /\ had /\ timers[g].active)
                  => /\ lastOp'.returned = ToString(timers[g].remainingSec - 1)
                     /\ timers'[g].remainingSec = timers[g].remainingSec - 1
           /\ (lastOp'.op = "initTimer" /\ lastOp'.timeLimitSec <= 0) => timers' = timers
           /\ (lastOp'.op = "tickTimer" /\ lastOp'.returned = "0")
                  => /\ had /\ timers[g].active
                     /\ ~timers'[g].active
                     /\ timers'[g].remainingSec = 0]_vars

\* the tick that returned 0: the timer of two seconds has run out and is inactive
C30_Witness ==
    /\ lastOp.op = "tickTimer"
    /\ lastOp.returned = "0"
    /\ Has(timers, StoreGame)
    /\ timers[StoreGame] = TimerState(0, FALSE)

====
